---- MODULE Spec2Model ----
(***************************************************************************)
(* Trade-settlement pipeline of the Polymarket MCP server:                 *)
(*   - PolymarketApprovals (src/services/approvals.ts): check,             *)
(*     assertApproved, approveAll, sendWithNonceAndRetry / sendTx;         *)
(*   - the approve_allowances tool (src/tools/approve-allowances.ts);      *)
(*   - PolymarketTrading (lazy-init variant): placeOrder, placeMarketOrder.*)
(* The chain node and the exchange are the environment: their answers are  *)
(* nondeterministic choices, another party may change the owner's          *)
(* allowances at any await point, and broadcast transactions are mined by  *)
(* a separate step.                                                        *)
(***************************************************************************)
EXTENDS Integers, Sequences, FiniteSets, TLC

(* ------------------------------ bounds -------------------------------- *)
\* largest pending transaction count the node reports
MaxNonce == 1
\* largest waitForConfirmations a caller passes
MaxWait == 1
\* approveAll invocations of one caller, one after the other
MaxCalls == 2
\* allowance changes made by another party
MaxExternal == 1
\* requirements missing on the chain when the process starts
MaxMissing == 2
MaxFee == 6
MaxFloor == 4
MaxUses == 2
MaxAmount == 5
MaxBalance == 2
\* stand-in for ethers' constants.MaxUint256 (the granted ERC20 amount)
MaxUint256 == 2

(* --------------------------- requirements ----------------------------- *)
\* The two builds of approvals.ts: the reference-counter build (three
\* requirements, sendWithNonceAndRetry) and the build that walks a table of
\* seven requirements with `nonce++` (sendTx).
Variants == {"refCounter", "noncePlusPlus"}

\* ApprovalCheck["missing"] of the reference-counter build, declaration order
RefApprovals ==
  <<"USDC_ALLOWANCE_FOR_CTF", "USDC_ALLOWANCE_FOR_EXCHANGE",
    "CTF_APPROVAL_FOR_EXCHANGE">>

\* the `approvals` table of the nonce++ build
approvals ==
  <<"USDC_ALLOWANCE_FOR_CTF", "USDC_ALLOWANCE_FOR_EXCHANGE",
    "CTF_APPROVAL_FOR_EXCHANGE", "USDC_ALLOWANCE_FOR_NEG_RISK_EXCHANGE",
    "USDC_ALLOWANCE_FOR_NEG_RISK_ADAPTER", "CTF_APPROVAL_FOR_NEG_RISK_EXCHANGE",
    "CTF_APPROVAL_FOR_NEG_RISK_ADAPTER">>

SeqToSet(s) == {s[i] : i \in DOMAIN s}

ApprovalsOf(v) == IF v = "refCounter" THEN RefApprovals ELSE approvals

\* ERC1155 operator approvals (CTF_ABI) as opposed to ERC20 allowances (USDC_ABI)
IsCtf(r) ==
  r \in {"CTF_APPROVAL_FOR_EXCHANGE", "CTF_APPROVAL_FOR_NEG_RISK_EXCHANGE",
         "CTF_APPROVAL_FOR_NEG_RISK_ADAPTER"}

\* what a mined grant leaves on the chain: approve(spender, MaxUint256) or
\* setApprovalForAll(operator, true)
GrantValue(r) == IF IsCtf(r) THEN 1 ELSE MaxUint256

(* ------------------------------- errors ------------------------------- *)
NoErr == [code |-> 0, msg |-> "none"]

\* errors a broadcast or a wait can raise: a JSON-RPC -32000, a message
\* holding "replace", a message holding "nonce", anything else
Errors ==
  { [code |-> -32000, msg |-> "other"], [code |-> 0, msg |-> "replace"],
    [code |-> 0, msg |-> "nonce"], [code |-> 0, msg |-> "other"] }

VARIABLES
  variant,      \* which build of approvals.ts runs
  allowance,    \* chain: requirement -> allowance amount / approval flag
  mempool,      \* requirements with an accepted, unmined grant transaction
  extChanges,   \* allowance changes made by another party so far
  toolPc,       \* approve_allowances execute: idle, before, approveAll, done
  toolResult,   \* what the tool returned
  pc,           \* approveAll: idle, check, fee, nonce, send, wait, requery,
                \*   retry, retryWait, returned, threw
  opts,         \* approveAll's opts
  current,      \* current.missing
  waitConfs,
  nextNonce,    \* nextNonceRef.value / the loop's `nonce`
  idx,          \* position in the requirement order
  txHashes,
  actions,
  message,
  mined,        \* the awaited transaction has its receipt
  sends,        \* nonces handed to `send` in the running sendWithNonceAndRetry
  caught,       \* the error the catch block is deciding on
  refreshed,    \* the pending count re-queried by the catch block
  broadcasts,   \* transactions the node accepted in this call
  lastNonce,    \* nonce carried by the latest of them
  attempted,    \* requirements whose broadcaster was invoked in this call
  calls,        \* approveAll invocations so far
  prevBroadcasts, \* transactions the node accepted in the previous call
  client,       \* PolymarketTrading.client is set
  initPromise,  \* PolymarketTrading.initPromise: null, pending, resolved
  initPc,       \* the running initialize(): none, derive, create, log
  derivations,  \* deriveApiKey / createApiKey requests sent so far
  initRuns,     \* initialize() invocations so far
  initFailures, \* initialize() invocations that rejected
  marketParamsCache,
  tpc,          \* per caller: idle, awaitInit, assert, fetch, post, done, threw
  targs,        \* per caller: the arguments of its running call
  status,       \* per caller: status.missing of its allowance check
  checked,      \* per caller: that check has answered
  terr,         \* per caller: the error its call ended with
  issued,       \* per caller: exchange requests sent after its check
  orders,       \* order-entry calls the exchange received
  response,     \* per caller: what the tool's execute answered
  tcalls,       \* trading calls started so far
  rArgs,        \* resolveMarketDetails: the caller's arguments
  rPc,          \* resolveMarketDetails: idle, fetch, returned, threw
  rAnswer,      \* the market-data server's answer to the lookup
  rResult,      \* the ResolvedMarketDetails returned
  rError,       \* the error thrown
  rRequests,    \* market-data requests sent
  feeData,      \* buildFeeOverrides: what provider.getFeeData() answered
  floorPri,     \* buildFeeOverrides: the parsed minimum priority fee, in wei
  feeOverrides, \* buildFeeOverrides: the overrides returned
  feePc,        \* buildFeeOverrides: idle, computing, returned
  privateKey,   \* process.env.POLYMARKET_PRIVATE_KEY
  serverPc,     \* main(): boot, started
  registered,   \* the tools main() added to the server
  tradingInstance, \* the tradingInstance singleton exists
  log,          \* the uses made so far: tool calls and direct library uses
  exchangeTick, \* the exchange: each token's current tick size
  ipc,          \* per concurrent approveAll: idle, check, fee, nonce, send,
                \*   requery, retry, returned, threw
  icurrent,     \* per concurrent approveAll: current.missing
  inonce,       \* per concurrent approveAll: nextNonceRef.value
  iidx,         \* per concurrent approveAll: position in the requirement order
  pendingCount, \* the node: the account's pending transaction count
  txpool,       \* the node: the transactions it accepted
  broadcast,    \* every transaction handed to the node
  oArgs,        \* placeOrder / placeMarketOrder: the caller's arguments
  oOrder,       \* the UserOrder / UserMarketOrder handed to the exchange client
  oPc,          \* idle, called, submitted
  funderAddress, \* PolymarketApprovals.funderAddress, "undefined" when not configured
  held,         \* on-chain: the approvals every owner address has granted
  ownerPc,      \* new, idle, checked, approving, approved, threw
  ownerReads,   \* the allowance reads of the call: owner address and requirement
  ownerCurrent, \* the call's check() result: the missing approvals
  ownerIdx,     \* approveAll's position in the missing approvals
  ownerGrants,  \* the grants approveAll has written: owner address and requirement
  initializationPromise, \* services/index.ts: null, pending, fulfilled, rejected
  orderService, \* services/index.ts: undefined until the services are built
  signerApproved, \* on-chain: the approvals the signer address has granted
  autoPc,       \* initialization: none, read, grant, wait, creds, done, failed
  autoRead,     \* setAllowances: the approvals found granted by its three reads
  autoIdx,      \* setAllowances: the approval it is at
  autoLog,      \* the transactions of setAllowances, broadcast and confirmed
  credsRequested, \* createOrDeriveApiKey has been called
  setAllowancesFailed, \* setAllowances has thrown
  getterPc,     \* per caller of getOrderService: idle, awaiting, has, threw
  autoOrders,   \* the callers whose order went to the OrderService
  wanted,       \* per caller: the getter it called
  rejection,    \* the error the initialization promise rejected with
  received,     \* per caller: the error its getter call rejected with
  redeemParams, \* redeemPositions: tokenId, outcomeIndex, negRisk
  redeemPc,     \* idle, balance, resolved, branch, adapter, winning, send, wait, done
  tokenBalance, \* what getCTFBalance returned
  resolvedRead, \* what isMarketResolved gave: unread, true, false
  adapterRead,  \* what isNegRiskAdapterApproved gave: unread, true, false, rejected
  failedReads,  \* the reads whose RPC request failed
  redeemTxs,    \* redemption transactions broadcast
  redeemResult  \* the RedeemResult, or the error redeemPositions threw

approvalVars ==
  << variant, allowance, mempool, extChanges, toolPc, toolResult, pc, opts,
     current, waitConfs, nextNonce, idx, txHashes, actions, message, mined,
     sends, caught, refreshed, broadcasts, lastNonce, attempted, calls,
     prevBroadcasts >>

tradingVars ==
  << client, initPromise, initPc, derivations, initRuns, initFailures,
     marketParamsCache, tpc, targs, status, checked, terr, issued, orders,
     response, tcalls >>

resolverVars == << rArgs, rPc, rAnswer, rResult, rError, rRequests >>

feeVars == << feeData, floorPri, feeOverrides, feePc >>

serverVars == << privateKey, serverPc, registered, tradingInstance, log >>

exchangeVars == << exchangeTick >>

invocationVars == << ipc, icurrent, inonce, iidx, pendingCount, txpool, broadcast >>

orderVars == << oArgs, oOrder, oPc >>

ownerVars ==
  << funderAddress, held, ownerPc, ownerReads, ownerCurrent, ownerIdx, ownerGrants >>

autoVars ==
  << initializationPromise, orderService, signerApproved, autoPc, autoRead, autoIdx,
     autoLog, credsRequested, setAllowancesFailed, getterPc, autoOrders >>

serviceVars == << wanted, rejection, received >>

redeemVars ==
  << redeemParams, redeemPc, tokenBalance, resolvedRead, adapterRead, failedReads,
     redeemTxs, redeemResult >>

libVars ==
  << resolverVars, feeVars, serverVars, exchangeVars, invocationVars, orderVars,
     ownerVars, autoVars, serviceVars, redeemVars >>

vars == << approvalVars, tradingVars, libVars >>

(* ================= PolymarketApprovals (approvals.ts) ================= *)

\* faulty checks: one reports every requirement, whatever the chain holds,
\* one answers from a remembered status with nothing missing
checkAll(v, a) == ApprovalsOf(v)

checkRemembered(v, a) == << >>

\* faulty reading: an allowance short of the full grant is reported missing
checkBelowGrant(v, a) == SelectSeq(ApprovalsOf(v), LAMBDA r : a[r] < GrantValue(r))

\* check(): the requirements whose on-chain value is zero / false, in
\* declaration order (isZero() in one build, !gt(Zero) in the other)
check(v, a) == SelectSeq(ApprovalsOf(v), LAMBDA r : a[r] = 0)

\* faulty selections: a flag passed as false is read as true
SelectionsAll(o) == [r \in DOMAIN o.sel |-> TRUE]

\* `opts?.approveX ?? true`
Selections(o) ==
  [r \in DOMAIN o.sel |-> IF o.sel[r] = "undefined" THEN TRUE ELSE o.sel[r] = "true"]

\* faulty guard: every selected requirement is due, missing or not
NeedsTxSelected(v, o, missing, r) == Selections(o)[r]

\* the guard in front of each grant of approveAll
NeedsTx(v, o, missing, r) ==
  IF v = "refCounter"
  THEN Selections(o)[r] /\ (o.force \/ r \in SeqToSet(missing))
  ELSE r \in SeqToSet(missing)

\* the next requirement, from position i on, whose guard holds (Len + 1: none)
NextIdx(v, o, missing, i) ==
  LET order == ApprovalsOf(v)
      cands == {j \in i..Len(order) : NeedsTx(v, o, missing, order[j])}
  IN  IF cands = {} THEN Len(order) + 1
      ELSE CHOOSE j \in cands : \A k \in cands : j <= k

\* faulty wait: the caller's waitForConfirmations is dropped, or every call
\* waits for one confirmation
WaitConfsNone(v, o) == 0

WaitConfsAlways(v, o) == 1

\* Math.max(0, opts?.waitForConfirmations ?? 0) in the reference-counter
\* build, opts?.waitForConfirmations ?? 0 in the nonce++ build
WaitConfsOf(v, o) ==
  IF v = "refCounter" THEN (IF o.wait > 0 THEN o.wait ELSE 0) ELSE o.wait

\* faulty message: the branch for zero transactions is missing
MessageByWait(n, w) == IF w > 0 THEN "confirmed" ELSE "submitted"

\* the `message` of approveAll's result; n is `actions` in one build and
\* txHashes.length in the other
Message(n, w) ==
  IF n = 0 THEN "No transactions needed"
  ELSE IF w > 0 THEN "confirmed" ELSE "submitted"

\* faulty classification: every error is taken for a replacement error
isReplaceErrAny(e) == TRUE

\* faulty classification: any error with a message is taken for a replacement
\* error
isReplaceErrLoose(e) == e.code = -32000 \/ e.msg # "none"

\* isReplaceErr of sendWithNonceAndRetry
isReplaceErr(e) == e.code = -32000 \/ e.msg \in {"replace", "nonce"}

\* isNonceErr of sendTx
isNonceErr(e) == e.msg \in {"nonce", "replace"}

Retriable(v, e) == IF v = "refCounter" THEN isReplaceErr(e) ELSE isNonceErr(e)

\* The selections a caller passes: every flag omitted, every flag true, or
\* one flag false and the others omitted.
SelectionArgs ==
  { f \in [SeqToSet(RefApprovals) -> {"false", "undefined"}] :
      Cardinality({r \in DOMAIN f : f[r] = "false"}) <= 1 }
    \cup {[r \in SeqToSet(RefApprovals) |-> "true"]}

OptsOf(v) ==
  IF v = "refCounter"
  THEN [sel : SelectionArgs, force : BOOLEAN, wait : 0..MaxWait]
  ELSE [sel : {[r \in SeqToSet(approvals) |-> "undefined"]}, force : {FALSE},
        wait : 0..MaxWait]

NoOpts == [sel |-> [r \in SeqToSet(RefApprovals) |-> "undefined"], force |-> FALSE, wait |-> 0]

NoResult ==
  [alreadyApproved |-> FALSE, success |-> FALSE, txHashes |-> << >>, message |-> ""]

callVars == << calls, prevBroadcasts >>
toolVars == << toolPc, toolResult >>
chainVars == << allowance, mempool, extChanges >>
sendVars == << sends, caught, refreshed >>
acceptVars == << broadcasts, lastNonce >>

\* the locals of a fresh approveAll activation
EnterApproveAll ==
  /\ pc' = "check"
  /\ calls' = calls + 1
  /\ prevBroadcasts' = broadcasts
  /\ current' = << >>
  /\ waitConfs' = 0
  /\ nextNonce' = 0
  /\ idx' = 0
  /\ txHashes' = << >>
  /\ actions' = 0
  /\ message' = ""
  /\ mined' = FALSE
  /\ sends' = << >>
  /\ caught' = NoErr
  /\ refreshed' = 0
  /\ broadcasts' = 0
  /\ lastNonce' = 0
  /\ attempted' = {}

\* a caller invokes approveAll(o) on the service
approveAll(o) ==
  /\ toolPc = "idle"
  /\ pc = "idle"
  /\ calls = 0
  /\ opts' = o
  /\ EnterApproveAll
  /\ UNCHANGED << variant, allowance, mempool, extChanges, toolVars >>

\* and, when it returned, invokes it again with the same opts
approveAllAgain ==
  /\ toolPc = "idle"
  /\ pc = "returned"
  /\ calls < MaxCalls
  /\ EnterApproveAll
  /\ UNCHANGED << variant, chainVars, toolVars, opts >>

\* `const current = await this.check()` and the selections
approveAllCheck ==
  /\ pc = "check"
  /\ current' = check(variant, allowance)
  /\ waitConfs' = WaitConfsOf(variant, opts)
  /\ pc' = IF variant = "refCounter" THEN "fee" ELSE "nonce"
  /\ UNCHANGED << variant, chainVars, toolVars, opts, nextNonce, idx, txHashes,
                  actions, message, mined, sendVars, acceptVars, attempted, callVars >>

\* `await this.buildFeeOverrides(...)`: provider.getFeeData() answers or throws
buildFeeOverrides ==
  /\ pc = "fee"
  /\ \E ok \in BOOLEAN : pc' = IF ok THEN "nonce" ELSE "threw"
  /\ UNCHANGED << variant, chainVars, toolVars, opts, current, waitConfs, nextNonce,
                  idx, txHashes, actions, message, mined, sendVars, acceptVars,
                  attempted, callVars >>

\* approveAll's return statement, reached when no further grant is due
Return(hashes, n) ==
  /\ pc' = "returned"
  /\ message' = Message(IF variant = "refCounter" THEN n ELSE Len(hashes), waitConfs)

\* after a grant's hash was pushed: the next due grant, or the return
Continue(hashes, n) ==
  LET j == NextIdx(variant, opts, current, idx + 1)
  IN  /\ idx' = j
      /\ txHashes' = hashes
      /\ actions' = n
      /\ IF j > Len(ApprovalsOf(variant))
         THEN Return(hashes, n)
         ELSE pc' = "send" /\ message' = message

\* `await this.getPendingNonce()`, then on to the first due grant
getPendingNonce ==
  /\ pc = "nonce"
  /\ \E n \in 0..MaxNonce :
       LET j == NextIdx(variant, opts, current, 1)
       IN  /\ nextNonce' = n
           /\ idx' = j
           /\ IF j > Len(ApprovalsOf(variant))
              THEN Return(txHashes, 0)
              ELSE pc' = "send" /\ message' = message
  /\ UNCHANGED << variant, chainVars, toolVars, opts, current, waitConfs, txHashes,
                  actions, mined, sendVars, acceptVars, attempted, callVars >>

\* The nonces the broadcast transaction can carry when `send` is handed n.
\* sendWithNonceAndRetry's broadcasters pass the overrides on to the contract
\* call; the `fn` entries of the nonce++ table take no parameter, so the
\* overrides are dropped and the signer fills the nonce in from the node.
CarriedNonces(v, n) == IF v = "refCounter" THEN {n} ELSE 0..MaxNonce

\* the node accepted the grant for r carrying nonce c
Accept(r, c) ==
  /\ broadcasts' = broadcasts + 1
  /\ lastNonce' = c
  /\ mempool' = mempool \cup {r}
  /\ mined' = FALSE

\* the hash of the transaction for ApprovalsOf(variant)[idx] that the k-th
\* `send` of the running sendWithNonceAndRetry broadcast; receipt.transactionHash
\* of a mined transaction is the hash of its response
Hash(k) == [req |-> ApprovalsOf(variant)[idx], send |-> k]

\* faulty catch block: an error it does not retry is swallowed and the grants
\* go on
CatchAndGoOn(e) ==
  /\ caught' = e
  /\ pc' = IF Retriable(variant, e) THEN "requery" ELSE "send"

\* the catch block's decision for error e
Catch(e) ==
  /\ caught' = e
  /\ pc' = IF Retriable(variant, e) THEN "requery" ELSE "threw"

\* sendWithNonceAndRetry / sendTx, first `send`: the node accepts the
\* transaction or rejects it with an error
trySend ==
  /\ pc = "send"
  /\ LET r == ApprovalsOf(variant)[idx]
     IN  /\ sends' = << nextNonce >>
         /\ attempted' = attempted \cup {r}
         /\ refreshed' = 0
         /\ \/ /\ \E c \in CarriedNonces(variant, nextNonce) : Accept(r, c)
               /\ nextNonce' = nextNonce + 1
               /\ caught' = NoErr
               /\ IF waitConfs > 0
                  THEN /\ pc' = "wait"
                       /\ UNCHANGED << txHashes, actions, idx, message >>
                  ELSE Continue(Append(txHashes, Hash(1)), actions + 1)
            \/ /\ \E e \in Errors : Catch(e)
               /\ nextNonce' = IF variant = "refCounter" THEN nextNonce ELSE nextNonce + 1
               /\ UNCHANGED << acceptVars, mempool, mined, txHashes, actions, idx, message >>
  /\ UNCHANGED << variant, allowance, extChanges, toolVars, opts, current,
                  waitConfs, callVars >>

\* `await tx.wait(waitConfs)` inside the try block: the receipt, or an error
\* that lands in the same catch block
txWait ==
  /\ pc = "wait"
  /\ \/ /\ mined
        /\ Continue(Append(txHashes, Hash(1)), actions + 1)
        /\ UNCHANGED caught
     \/ /\ \E e \in Errors : Catch(e)
        /\ UNCHANGED << txHashes, actions, idx, message >>
  /\ UNCHANGED << variant, chainVars, toolVars, opts, current, waitConfs, nextNonce,
                  mined, sends, refreshed, acceptVars, attempted, callVars >>

\* the catch block: `await this.getPendingNonce()`
refreshNonce ==
  /\ pc = "requery"
  /\ \E n \in 0..MaxNonce :
       /\ refreshed' = n
       /\ nextNonce' = IF variant = "refCounter" THEN n ELSE nextNonce
  /\ pc' = "retry"
  /\ caught' = NoErr
  /\ UNCHANGED << variant, chainVars, toolVars, opts, current, waitConfs, idx,
                  txHashes, actions, message, mined, sends, acceptVars, attempted,
                  callVars >>

\* the catch block's second `send`; an error here leaves the function
retrySend ==
  /\ pc = "retry"
  /\ LET r == ApprovalsOf(variant)[idx]
         n == IF variant = "refCounter" THEN nextNonce ELSE refreshed
     IN  /\ sends' = Append(sends, n)
         /\ \/ /\ \E c \in CarriedNonces(variant, n) : Accept(r, c)
               /\ nextNonce' = IF variant = "refCounter" THEN nextNonce + 1 ELSE nextNonce
               /\ IF waitConfs > 0
                  THEN /\ pc' = "retryWait"
                       /\ UNCHANGED << txHashes, actions, idx, message >>
                  ELSE Continue(Append(txHashes, Hash(2)), actions + 1)
            \/ /\ pc' = "threw"
               /\ UNCHANGED << acceptVars, mempool, mined, nextNonce, txHashes, actions,
                               idx, message >>
  /\ UNCHANGED << variant, allowance, extChanges, toolVars, opts, current,
                  waitConfs, caught, refreshed, attempted, callVars >>

\* `await tx.wait(waitConfs)` inside the catch block
retryWait ==
  /\ pc = "retryWait"
  /\ \/ /\ mined
        /\ Continue(Append(txHashes, Hash(2)), actions + 1)
     \/ /\ pc' = "threw"
        /\ UNCHANGED << txHashes, actions, idx, message >>
  /\ UNCHANGED << variant, chainVars, toolVars, opts, current, waitConfs, nextNonce,
                  mined, sendVars, acceptVars, attempted, callVars >>

(* ------------------------------ the chain ------------------------------ *)
\* a pending grant for r is mined: the allowance is set, and a caller
\* waiting for that transaction gets its receipt
Mine(r) ==
  /\ r \in mempool
  /\ mempool' = mempool \ {r}
  /\ allowance' = [allowance EXCEPT ![r] = GrantValue(r)]
  /\ mined' = IF pc \in {"wait", "retryWait"} /\ ApprovalsOf(variant)[idx] = r
              THEN TRUE ELSE mined
  /\ UNCHANGED << variant, extChanges, toolVars, pc, opts, current,
                  waitConfs, nextNonce, idx, txHashes, actions, message, sendVars,
                  acceptVars, attempted, callVars >>

\* The owner, from another wallet session, revokes the allowance for r. Init
\* covers every chain state, so the other party acts once an operation runs.
ExternalRevoke(r) ==
  /\ extChanges < MaxExternal
  /\ toolPc # "idle" \/ pc # "idle" \/ tcalls > 0
  /\ allowance[r] # 0
  /\ allowance' = [allowance EXCEPT ![r] = 0]
  /\ extChanges' = extChanges + 1
  /\ UNCHANGED << variant, mempool, toolVars, pc, opts, current, waitConfs,
                  nextNonce, idx, txHashes, actions, message, mined, sendVars,
                  acceptVars, attempted, callVars >>

\* The owner, from a wallet, sets the allowance for r to any amount v, or the
\* operator approval to false (0) or true (1), before the service is used.
ExternalApprove(r, v) ==
  /\ toolPc = "idle" /\ pc = "idle"
  /\ allowance[r] # v
  /\ allowance' = [allowance EXCEPT ![r] = v]
  /\ UNCHANGED << variant, mempool, extChanges, toolVars, pc, opts, current,
                  waitConfs, nextNonce, idx, txHashes, actions, message, mined,
                  sendVars, acceptVars, attempted, callVars >>

(* ============ approve_allowances tool (approve-allowances.ts) ========== *)
\* execute(args): `new PolymarketApprovals()`, then `await svc.check()`
approveAllowancesTool(args) ==
  /\ variant = "refCounter"
  /\ toolPc = "idle"
  /\ pc = "idle"
  /\ calls = 0
  /\ toolPc' = "before"
  /\ opts' = args
  /\ UNCHANGED << variant, allowance, mempool, extChanges, toolResult, pc, current,
                  waitConfs, nextNonce, idx, txHashes, actions, message, mined,
                  sendVars, acceptVars, attempted, callVars >>

\* `before` arrives: the early return, or the call of svc.approveAll
toolBefore ==
  /\ toolPc = "before"
  /\ IF Len(check(variant, allowance)) = 0
     THEN /\ toolPc' = "done"
          /\ toolResult' = [NoResult EXCEPT !.alreadyApproved = TRUE,
                                            !.message = "already in place"]
          /\ UNCHANGED << pc, current, waitConfs, nextNonce, idx, txHashes, actions,
                          message, mined, sendVars, acceptVars, attempted, callVars >>
     ELSE /\ toolPc' = "approveAll"
          /\ toolResult' = toolResult
          /\ EnterApproveAll
  /\ UNCHANGED << variant, chainVars, opts >>

\* approveAll returned; `after` arrives and the tool answers
toolAfter ==
  /\ toolPc = "approveAll"
  /\ pc = "returned"
  /\ toolPc' = "done"
  /\ toolResult' = [alreadyApproved |-> FALSE,
                    success |-> Len(check(variant, allowance)) = 0,
                    txHashes |-> txHashes, message |-> message]
  /\ UNCHANGED << variant, chainVars, pc, opts, current, waitConfs, nextNonce, idx,
                  txHashes, actions, message, mined, sendVars, acceptVars, attempted,
                  callVars >>

(* ===== approveAll invocations in flight together (approve_allowances) ===== *)
\* two approve_allowances calls, each with its own PolymarketApprovals
Invocations == {"i1", "i2"}

\* the grant for requirement r carrying nonce n
Tx(r, n) == [req |-> r, nonce |-> n]

\* where approveAll goes after the grant at position j - 1: the next due
\* grant from position j on, or the return
Proceed(i, missing, j) ==
  LET k == NextIdx("refCounter", NoOpts, missing, j)
  IN  /\ iidx' = [iidx EXCEPT ![i] = k]
      /\ ipc' = [ipc EXCEPT ![i] = IF k > Len(RefApprovals) THEN "returned" ELSE "send"]

\* the node takes the transaction t: as the account's next one, or, when it
\* holds one with that nonce already, in its place
NodeAccepts(t) ==
  IF t.nonce = pendingCount
  THEN /\ pendingCount' = pendingCount + 1
       /\ txpool' = txpool \cup {t}
  ELSE /\ t.nonce < pendingCount
       /\ pendingCount' = pendingCount
       /\ txpool' = {u \in txpool : u.nonce # t.nonce} \cup {t}

\* execute calls svc.approveAll with the default options
invokeApproveAll(i) ==
  /\ ipc[i] = "idle"
  /\ ipc' = [ipc EXCEPT ![i] = "check"]
  /\ UNCHANGED << icurrent, inonce, iidx, pendingCount, txpool, broadcast >>

\* `const current = await this.check()`
invocationCheck(i) ==
  /\ ipc[i] = "check"
  /\ icurrent' = [icurrent EXCEPT ![i] = check("refCounter", allowance)]
  /\ ipc' = [ipc EXCEPT ![i] = "fee"]
  /\ UNCHANGED << inonce, iidx, pendingCount, txpool, broadcast >>

\* `await this.buildFeeOverrides(...)` answers or throws
invocationFee(i) ==
  /\ ipc[i] = "fee"
  /\ \E ok \in BOOLEAN : ipc' = [ipc EXCEPT ![i] = IF ok THEN "nonce" ELSE "threw"]
  /\ UNCHANGED << icurrent, inonce, iidx, pendingCount, txpool, broadcast >>

\* `const nextNonceRef = { value: await this.getPendingNonce() }`
invocationNonce(i) ==
  /\ ipc[i] = "nonce"
  /\ inonce' = [inonce EXCEPT ![i] = pendingCount]
  /\ Proceed(i, icurrent[i], 1)
  /\ UNCHANGED << icurrent, pendingCount, txpool, broadcast >>

\* sendWithNonceAndRetry, first `send`: the node takes the transaction, or
\* answers with an error and the catch block decides
invocationSend(i) ==
  /\ ipc[i] = "send"
  /\ LET t == Tx(RefApprovals[iidx[i]], inonce[i])
     IN  /\ broadcast' = broadcast \cup {t}
         /\ \/ /\ NodeAccepts(t)
               /\ inonce' = [inonce EXCEPT ![i] = inonce[i] + 1]
               /\ Proceed(i, icurrent[i], iidx[i] + 1)
            \/ /\ \E e \in Errors :
                    ipc' = [ipc EXCEPT ![i] = IF isReplaceErr(e) THEN "requery" ELSE "threw"]
               /\ UNCHANGED << inonce, iidx, pendingCount, txpool >>
  /\ UNCHANGED icurrent

\* the catch block: `nextNonceRef.value = await this.getPendingNonce()`
invocationRequery(i) ==
  /\ ipc[i] = "requery"
  /\ inonce' = [inonce EXCEPT ![i] = pendingCount]
  /\ ipc' = [ipc EXCEPT ![i] = "retry"]
  /\ UNCHANGED << icurrent, iidx, pendingCount, txpool, broadcast >>

\* the catch block's second `send`; an error here leaves approveAll
invocationRetry(i) ==
  /\ ipc[i] = "retry"
  /\ LET t == Tx(RefApprovals[iidx[i]], inonce[i])
     IN  /\ broadcast' = broadcast \cup {t}
         /\ \/ /\ NodeAccepts(t)
               /\ inonce' = [inonce EXCEPT ![i] = inonce[i] + 1]
               /\ Proceed(i, icurrent[i], iidx[i] + 1)
            \/ /\ ipc' = [ipc EXCEPT ![i] = "threw"]
               /\ UNCHANGED << inonce, iidx, pendingCount, txpool >>
  /\ UNCHANGED icurrent

(* ============ PolymarketTrading, lazy-init build (trading.ts) ========== *)
\* the concurrent callers of tradeApi, and the tokens they trade
Callers == {"c1", "c2"}
Tokens == {"tokenA", "tokenB"}
OrderOps == {"placeOrder", "placeMarketOrder"}
CancelOps == {"cancelOrder", "cancelOrders", "cancelAllOrders", "cancelMarketOrders"}
ReadOps ==
  {"getOpenOrders", "getOrder", "getTradeHistory", "getBalanceAllowance",
   "getOrderbook", "getPrice", "getMidpoint"}
UpdateOps == {"updateBalanceAllowance"}

\* the exchange's order-entry call of each operation
OrderEntry(op) ==
  IF op = "placeOrder" THEN "createAndPostOrder" ELSE "createAndPostMarketOrder"

\* the exchange's cancel call of each cancel operation
CancelEntry(op) == IF op = "cancelAllOrders" THEN "cancelAll" ELSE op

\* the exchange call of each read operation and of updateBalanceAllowance
ClientCall(op) ==
  IF op = "getTradeHistory" THEN "getTrades"
  ELSE IF op = "getOrderbook" THEN "getOrderBook"
  ELSE op

\* faulty methods: only the order methods assert, or every method asserts
AssertsApprovalsOrdersOnly(op) == op \in OrderOps

AssertsApprovalsAlways(op) == TRUE

\* the methods that `await this.assertApprovals()` after ensureInitialized
AssertsApprovals(op) == op \in OrderOps \cup CancelOps

\* where a method goes on once the client is there
AfterInit(op) == IF AssertsApprovals(op) THEN "assert" ELSE "request"

\* the three market-parameter requests of getMarketParams
ParamRequests == {"getTickSize", "getNegRisk", "getFeeRateBps"}

\* what the exchange answers them with
MarketParams(tokenId) ==
  [tickSize |-> exchangeTick[tokenId], negRisk |-> FALSE, feeRateBps |-> 0]

NoParams == [tickSize |-> "none", negRisk |-> FALSE, feeRateBps |-> 0]

\* faulty assertions: one that never throws, one that throws only when every
\* requirement is missing
ApprovalRequiredNever(missing) == FALSE

ApprovalRequiredAll(missing) == Len(missing) >= Len(RefApprovals)

\* assertApproved's condition for throwing ApprovalRequiredError
ApprovalRequired(missing) == Len(missing) > 0

\* the errors a call can end with, as the tool's catch block sees them
NoError == [name |-> "none", code |-> "none", details |-> << >>, nextStep |-> "none"]

ApprovalRequiredError(details) ==
  [name |-> "ApprovalRequiredError", code |-> "APPROVAL_REQUIRED",
   details |-> details, nextStep |-> "approve_allowances"]

PlainError(msg) == [name |-> "Error", code |-> msg, details |-> << >>, nextStep |-> "none"]

\* ApprovalRequiredError.toJSON()
toJSON(err) ==
  [approvalRequired |-> TRUE, code |-> err.code, details |-> err.details,
   nextStep |-> err.nextStep]

ResultBody ==
  [approvalRequired |-> FALSE, code |-> "none", details |-> << >>, nextStep |-> "none"]

NoResponse == [returned |-> FALSE, body |-> ResultBody, thrown |-> NoError]

\* execute's `return JSON.stringify(result, null, 2)`
toolReturn == [returned |-> TRUE, body |-> ResultBody, thrown |-> NoError]

\* faulty catch: every error is answered as an approval request
toolCatchAny(err) == [returned |-> TRUE, body |-> toJSON(err), thrown |-> NoError]

\* execute's catch block in place_order, place_market_order, cancel_order and
\* cancel_all_orders: `err instanceof ApprovalRequiredError`
toolCatch(err) ==
  IF err.name = "ApprovalRequiredError"
  THEN [returned |-> TRUE, body |-> toJSON(err), thrown |-> NoError]
  ELSE [returned |-> FALSE, body |-> ResultBody, thrown |-> err]

callerVars == << tpc, targs, status, checked, terr, issued, response >>

\* faulty guard: every first caller starts its own initialize()
StartsInitializeAlways(p) == TRUE

\* faulty guard: a caller that finds the promise pending starts initialize() too
StartsInitializeWhilePending(p) == p \in {"null", "pending"}

\* ensureInitialized's `if (!this.initPromise)`
StartsInitialize(p) == p = "null"

\* a caller invokes placeOrder / placeMarketOrder; ensureInitialized returns
\* at once, starts initialize(), or joins the pending initPromise
tradeCall(c, a) ==
  /\ tpc[c] \in {"idle", "done", "threw"}
  /\ tcalls < MaxCalls
  /\ tcalls' = tcalls + 1
  /\ targs' = [targs EXCEPT ![c] = a]
  /\ status' = [status EXCEPT ![c] = << >>]
  /\ checked' = [checked EXCEPT ![c] = FALSE]
  /\ terr' = [terr EXCEPT ![c] = "none"]
  /\ issued' = [issued EXCEPT ![c] = {}]
  /\ response' = [response EXCEPT ![c] = NoResponse]
  /\ IF client
     THEN /\ tpc' = [tpc EXCEPT ![c] = AfterInit(a.op)]
          /\ UNCHANGED << initPromise, initPc, derivations, initRuns >>
     ELSE /\ tpc' = [tpc EXCEPT ![c] = "awaitInit"]
          /\ IF StartsInitialize(initPromise)
             THEN /\ initPromise' = "pending"
                  /\ initPc' = "derive"
                  /\ derivations' = derivations + 1
                  /\ initRuns' = initRuns + 1
             ELSE UNCHANGED << initPromise, initPc, derivations, initRuns >>
  /\ UNCHANGED << client, initFailures, marketParamsCache, orders >>

\* initialize(): `await tempClient.deriveApiKey()` answers or fails
deriveApiKey ==
  /\ initPc = "derive"
  /\ \/ /\ client' = TRUE
        /\ initPc' = "log"
        /\ UNCHANGED derivations
     \/ /\ initPc' = "create"
        /\ derivations' = derivations + 1
        /\ UNCHANGED client
  /\ UNCHANGED << initPromise, initRuns, initFailures, marketParamsCache, callerVars,
                  orders, tcalls >>

\* initialize(): `await tempClient.createApiKey()` answers, or fails and the
\* promise rejects: initPromise is reset and every waiting caller throws
createApiKey ==
  /\ initPc = "create"
  /\ \/ /\ client' = TRUE
        /\ initPc' = "log"
        /\ UNCHANGED << initPromise, initFailures, tpc, terr, response >>
     \/ /\ initPc' = "none"
        /\ initPromise' = "null"
        /\ initFailures' = initFailures + 1
        /\ tpc' = [c \in Callers |-> IF tpc[c] = "awaitInit" THEN "threw" ELSE tpc[c]]
        /\ terr' = [c \in Callers |-> IF tpc[c] = "awaitInit" THEN "INIT_FAILED" ELSE terr[c]]
        /\ response' = [c \in Callers |->
                          IF tpc[c] = "awaitInit" THEN toolCatch(PlainError("INIT_FAILED"))
                          ELSE response[c]]
        /\ UNCHANGED client
  /\ UNCHANGED << derivations, initRuns, marketParamsCache, targs, status, checked,
                  issued, orders, tcalls >>

\* initialize() ends after `await ethersSigner.getAddress()`: the promise
\* resolves and every waiting caller goes on to assertApprovals
initialized ==
  /\ initPc = "log"
  /\ initPc' = "none"
  /\ initPromise' = "resolved"
  /\ tpc' = [c \in Callers |->
               IF tpc[c] = "awaitInit" THEN AfterInit(targs[c].op) ELSE tpc[c]]
  /\ UNCHANGED << client, derivations, initRuns, initFailures, marketParamsCache,
                  targs, status, checked, terr, issued, orders, response, tcalls >>

\* assertApprovals: the chain answers check(); with something missing the call
\* throws ApprovalRequiredError, otherwise getMarketParams returns the cached
\* entry or sends its three requests
assertApprovals(c) ==
  /\ tpc[c] = "assert"
  /\ LET missing == check(variant, allowance)
     IN  /\ status' = [status EXCEPT ![c] = missing]
         /\ checked' = [checked EXCEPT ![c] = TRUE]
         /\ IF ApprovalRequired(missing)
            THEN /\ tpc' = [tpc EXCEPT ![c] = "threw"]
                 /\ terr' = [terr EXCEPT ![c] = "APPROVAL_REQUIRED"]
                 /\ response' =
                      [response EXCEPT ![c] = toolCatch(ApprovalRequiredError(missing))]
                 /\ UNCHANGED issued
            ELSE /\ terr' = terr
                 /\ response' = response
                 /\ IF targs[c].op \in CancelOps
                    THEN /\ tpc' = [tpc EXCEPT ![c] = "cancel"]
                         /\ UNCHANGED issued
                    ELSE IF marketParamsCache[targs[c].tokenId] # NoParams
                    THEN /\ tpc' = [tpc EXCEPT ![c] = "post"]
                         /\ UNCHANGED issued
                    ELSE /\ tpc' = [tpc EXCEPT ![c] = "fetch"]
                         /\ issued' = [issued EXCEPT ![c] = ParamRequests]
  /\ UNCHANGED << client, initPromise, initPc, derivations, initRuns, initFailures,
                  marketParamsCache, targs,
                  orders, tcalls >>

\* getMarketParams: the three answers arrive and are cached, or getTickSize /
\* getNegRisk fails and the call throws
getMarketParams(c) ==
  /\ tpc[c] = "fetch"
  /\ \/ /\ marketParamsCache' =
             [marketParamsCache EXCEPT ![targs[c].tokenId] = MarketParams(targs[c].tokenId)]
        /\ tpc' = [tpc EXCEPT ![c] = "post"]
        /\ UNCHANGED << terr, response >>
     \/ /\ tpc' = [tpc EXCEPT ![c] = "threw"]
        /\ terr' = [terr EXCEPT ![c] = "UPSTREAM"]
        /\ response' = [response EXCEPT ![c] = toolCatch(PlainError("UPSTREAM"))]
        /\ UNCHANGED marketParamsCache
  /\ UNCHANGED << client, initPromise, initPc, derivations, initRuns, initFailures,
                  targs, status, checked,
                  issued, orders, tcalls >>

\* client.createAndPostOrder / createAndPostMarketOrder: the order-entry call
\* reaches the exchange
createAndPost(c) ==
  /\ tpc[c] = "post"
  /\ issued' = [issued EXCEPT ![c] = issued[c] \cup {OrderEntry(targs[c].op)}]
  /\ orders' = orders \cup
       { [ caller |-> c, call |-> OrderEntry(targs[c].op), tokenId |-> targs[c].tokenId,
           params |-> marketParamsCache[targs[c].tokenId],
           checked |-> checked[c], checkedMissing |-> status[c],
           onChainMissing |-> check(variant, allowance) ] }
  /\ tpc' = [tpc EXCEPT ![c] = "done"]
  /\ response' = [response EXCEPT ![c] = toolReturn]
  /\ UNCHANGED << client, initPromise, initPc, derivations, initRuns, initFailures,
                  marketParamsCache, targs,
                  status, checked, terr, tcalls >>

\* client.cancelOrder / client.cancelAll: the cancel request reaches the
\* exchange
cancelRequest(c) ==
  /\ tpc[c] = "cancel"
  /\ issued' = [issued EXCEPT ![c] = issued[c] \cup {CancelEntry(targs[c].op)}]
  /\ tpc' = [tpc EXCEPT ![c] = "done"]
  /\ response' = [response EXCEPT ![c] = toolReturn]
  /\ UNCHANGED << client, initPromise, initPc, derivations, initRuns, initFailures,
                  marketParamsCache, targs,
                  status, checked, terr, orders, tcalls >>

\* JavaScript's `!x` for an optional string
Falsy(x) == x \in {"undefined", ""}

(* ================= the server's main() and the key checks ================ *)
\* POLYMARKET_PRIVATE_KEY: unset, set to the empty string, set to a key
PrivateKeys == {"undefined", "", "0xkey"}

ReadOnlyTools ==
  {"getMarketBySlugTool", "getEventBySlugTool", "listActiveMarketsTool",
   "searchMarketsTool", "getMarketsByTagTool", "getAllTagsTool", "getOrderBookTool"}

TradingTools ==
  {"placeOrderTool", "placeMarketOrderTool", "getOpenOrdersTool", "getOrderTool",
   "cancelOrderTool", "cancelAllOrdersTool", "getTradeHistoryTool",
   "getBalanceAllowanceTool", "updateBalanceAllowanceTool"}

\* the tradeApi method each trading tool's execute calls
MethodOf(t) == SubSeq(t, 1, Len(t) - 4)

TradeMethods == {MethodOf(t) : t \in TradingTools}

TradingKeyError ==
  "POLYMARKET_PRIVATE_KEY environment variable is required for trading operations"

ApprovalsKeyError ==
  "POLYMARKET_PRIVATE_KEY environment variable is required for approvals"

\* main's `!!process.env.POLYMARKET_PRIVATE_KEY`
hasPrivateKey(key) == ~ Falsy(key)

\* faulty registration: the trading tools are added whatever the environment
RegisteredAlways(hasKey) == ReadOnlyTools \cup TradingTools

\* the tools main() adds
Registered(hasKey) == IF hasKey THEN ReadOnlyTools \cup TradingTools ELSE ReadOnlyTools

\* main(): the tools are added and the server starts
main ==
  /\ serverPc = "boot"
  /\ registered' = Registered(hasPrivateKey(privateKey))
  /\ serverPc' = "started"
  /\ UNCHANGED << privateKey, tradingInstance, log >>

\* a read-only tool is called: its request goes to the market-data server
readOnlyTool(t) ==
  /\ serverPc = "started"
  /\ t \in registered
  /\ Len(log) < MaxUses
  /\ log' = Append(log, [via |-> "tool", name |-> t, error |-> "none", sent |-> "market"])
  /\ UNCHANGED << privateKey, serverPc, registered, tradingInstance >>

\* a property of tradeApi is read: getTradingInstance() throws without a key,
\* otherwise the singleton exists and the method's request goes to the exchange
getTradingInstance(via, name) ==
  /\ Len(log) < MaxUses
  /\ IF ~ tradingInstance /\ Falsy(privateKey)
     THEN /\ log' = Append(log, [via |-> via, name |-> name, error |-> TradingKeyError,
                                 sent |-> "none"])
          /\ UNCHANGED tradingInstance
     ELSE /\ tradingInstance' = TRUE
          /\ log' = Append(log, [via |-> via, name |-> name, error |-> "none",
                                 sent |-> "exchange"])
  /\ UNCHANGED << privateKey, serverPc, registered >>

\* a trading tool is called: its execute calls tradeApi
tradingTool(t) ==
  /\ serverPc = "started"
  /\ t \in registered
  /\ getTradingInstance("tool", t)

\* a caller of the library uses tradeApi
tradeApi(m) == getTradingInstance("tradeApi", m)

\* `new PolymarketApprovals()`: getSignerFromEnv() throws without a key,
\* otherwise the service reads the chain
newPolymarketApprovals ==
  /\ Len(log) < MaxUses
  /\ log' = Append(log,
       IF Falsy(privateKey)
       THEN [via |-> "PolymarketApprovals", name |-> "constructor",
             error |-> ApprovalsKeyError, sent |-> "none"]
       ELSE [via |-> "PolymarketApprovals", name |-> "check",
             error |-> "none", sent |-> "chain"])
  /\ UNCHANGED << privateKey, serverPc, registered, tradingInstance >>

(* ========== PolymarketApprovals.buildFeeOverrides (approvals.ts) ========= *)
\* a fee suggestion of the node: null, or a BigNumber of wei
Null == [present |-> FALSE, value |-> 0]

Wei(n) == [present |-> TRUE, value |-> n]

Suggestions == {Null} \cup {Wei(n) : n \in 0..MaxFee}

\* FeeData as provider.getFeeData() resolves it
FeeDatas == [maxPriorityFeePerGas : Suggestions, maxFeePerGas : Suggestions]

NoFeeData == [maxPriorityFeePerGas |-> Null, maxFeePerGas |-> Null]

NoFeeOverrides == [maxFeePerGas |-> 0, maxPriorityFeePerGas |-> 0]

\* BigNumber `.mul(12).div(10)`: integer division, no width limit
Bump(n) == (n * 12) \div 10

\* faulty overrides: the suggested max fee is taken as it comes
FeeOverridesNoMinMaxFee(fd, floor) ==
  LET suggestedPri == IF fd.maxPriorityFeePerGas.present
                      THEN Bump(fd.maxPriorityFeePerGas.value) ELSE floor
      maxPriorityFeePerGas == IF suggestedPri >= floor THEN suggestedPri ELSE floor
      minMaxFee == maxPriorityFeePerGas * 2
      maxFeePerGas == IF fd.maxFeePerGas.present
                      THEN Bump(fd.maxFeePerGas.value) ELSE minMaxFee
  IN  [maxFeePerGas |-> maxFeePerGas, maxPriorityFeePerGas |-> maxPriorityFeePerGas]

\* the overrides buildFeeOverrides computes from the fee data and the floor;
\* a BigNumber is truthy whatever its value, so only null takes the else arm
FeeOverrides(fd, floor) ==
  LET suggestedPri == IF fd.maxPriorityFeePerGas.present
                      THEN Bump(fd.maxPriorityFeePerGas.value) ELSE floor
      maxPriorityFeePerGas == IF suggestedPri >= floor THEN suggestedPri ELSE floor
      suggestedMaxFee == IF fd.maxFeePerGas.present
                         THEN Wei(Bump(fd.maxFeePerGas.value)) ELSE Null
      minMaxFee == maxPriorityFeePerGas * 2
      maxFeePerGas == IF suggestedMaxFee.present
                      THEN IF suggestedMaxFee.value >= minMaxFee
                           THEN suggestedMaxFee.value ELSE minMaxFee
                      ELSE minMaxFee
  IN  [maxFeePerGas |-> maxFeePerGas, maxPriorityFeePerGas |-> maxPriorityFeePerGas]

\* `await provider.getFeeData()` answers and the floor is parsed
getFeeData(fd, floor) ==
  /\ feePc = "idle"
  /\ feeData' = fd
  /\ floorPri' = floor
  /\ feePc' = "computing"
  /\ UNCHANGED feeOverrides

\* `return { maxFeePerGas, maxPriorityFeePerGas }`
buildFeeOverridesReturn ==
  /\ feePc = "computing"
  /\ feeOverrides' = FeeOverrides(feeData, floorPri)
  /\ feePc' = "returned"
  /\ UNCHANGED << feeData, floorPri >>

\* a read method or updateBalanceAllowance: its request reaches the exchange
exchangeRequest(c) ==
  /\ tpc[c] = "request"
  /\ issued' = [issued EXCEPT ![c] = issued[c] \cup {ClientCall(targs[c].op)}]
  /\ tpc' = [tpc EXCEPT ![c] = "done"]
  /\ response' = [response EXCEPT ![c] = toolReturn]
  /\ UNCHANGED << client, initPromise, initPc, derivations, initRuns, initFailures,
                  marketParamsCache, targs, status, checked, terr, orders, tcalls >>

(* ======== the order handed to the exchange client (placeOrder, ========= *)
(* ======== placeMarketOrder)                                     ========= *)
\* the `side` argument, as the schema and the type admit it
Sides == {"BUY", "SELL"}

\* limit prices, in cents
Prices == {1, 50, 99}

NoOrderArgs ==
  [op |-> "none", tokenId |-> "none", side |-> "BUY", amount |-> 0, price |-> 0,
   size |-> 0]

NoOrder ==
  [call |-> "none", tokenID |-> "none", side |-> "none", amount |-> 0, price |-> 0,
   size |-> 0]

\* faulty mapping: the sides are swapped
SideOfSwapped(side) == IF side = "BUY" THEN "Side.SELL" ELSE "Side.BUY"

\* `args.side === "BUY" ? Side.BUY : Side.SELL`
SideOf(side) == IF side = "BUY" THEN "Side.BUY" ELSE "Side.SELL"

\* placeMarketOrder's userMarketOrder
UserMarketOrder(args) ==
  [call |-> "createAndPostMarketOrder", tokenID |-> args.tokenId,
   side |-> SideOf(args.side), amount |-> args.amount, price |-> 0, size |-> 0]

\* placeOrder's userOrder
UserOrder(args) ==
  [call |-> "createAndPostOrder", tokenID |-> args.tokenId, side |-> SideOf(args.side),
   amount |-> 0, price |-> args.price, size |-> args.size]

\* the tool calls tradeApi.placeMarketOrder with the caller's arguments
placeMarketOrder(args) ==
  /\ oPc = "idle"
  /\ oArgs' = args
  /\ oPc' = "called"
  /\ UNCHANGED oOrder

\* the tool calls tradeApi.placeOrder with the caller's arguments
placeOrder(args) ==
  /\ oPc = "idle"
  /\ oArgs' = args
  /\ oPc' = "called"
  /\ UNCHANGED oOrder

\* the order is built and handed to client.createAndPostOrder /
\* createAndPostMarketOrder
createAndPostUserOrder ==
  /\ oPc = "called"
  /\ oOrder' = IF oArgs.op = "placeMarketOrder" THEN UserMarketOrder(oArgs)
               ELSE UserOrder(oArgs)
  /\ oPc' = "submitted"
  /\ UNCHANGED oArgs

(* ======== PolymarketApprovals with a funder address (proxy wallet) ======== *)
\* the signer's own address
SignerAddress == "0xsigner"

\* the constructor's funderAddress: not configured, or the proxy wallet
FunderAddresses == {"undefined", "0xfunder"}

OwnerAddresses == {SignerAddress, "0xfunder"}

\* the approvals check() reads, in the order it reports them missing
OwnerApprovals ==
  << "USDC_ALLOWANCE_FOR_CTF", "USDC_ALLOWANCE_FOR_EXCHANGE",
     "CTF_APPROVAL_FOR_EXCHANGE", "USDC_ALLOWANCE_FOR_NEGRISK_EXCHANGE",
     "USDC_ALLOWANCE_FOR_NEGRISK_ADAPTER", "CTF_APPROVAL_FOR_NEGRISK_EXCHANGE",
     "CTF_APPROVAL_FOR_NEGRISK_ADAPTER" >>

\* `this.funderAddress ?? this.signer.address`
getOwnerAddress == IF funderAddress = "undefined" THEN SignerAddress ELSE funderAddress

\* `!!this.funderAddress`
isProxyWallet == ~Falsy(funderAddress)

RECURSIVE MissingFrom(_, _)
\* check()'s `missing`: the approvals of the list that `granted` lacks, in order
MissingFrom(list, granted) ==
  IF list = << >> THEN << >>
  ELSE (IF Head(list) \in granted THEN << >> ELSE << Head(list) >>)
         \o MissingFrom(Tail(list), granted)

\* check()'s seven reads, all for one owner address
ReadsFor(owner) == {[owner |-> owner, req |-> r] : r \in SeqToSet(OwnerApprovals)}

\* new PolymarketApprovals(signer, funderAddress)
constructApprovals(f) ==
  /\ ownerPc = "new"
  /\ funderAddress' = f
  /\ ownerPc' = "idle"
  /\ UNCHANGED << held, ownerReads, ownerCurrent, ownerIdx, ownerGrants >>

\* the proxy wallet's approvals are set elsewhere (Polymarket UI, Safe interface)
setViaUI(r) ==
  /\ ownerPc = "idle"
  /\ r \notin held["0xfunder"]
  /\ held' = [held EXCEPT !["0xfunder"] = @ \cup {r}]
  /\ UNCHANGED << funderAddress, ownerPc, ownerReads, ownerCurrent, ownerIdx,
                  ownerGrants >>

\* check(): every requirement is read for getOwnerAddress()
ownerCheck ==
  /\ ownerPc = "idle"
  /\ ownerReads' = ReadsFor(getOwnerAddress)
  /\ ownerCurrent' = MissingFrom(OwnerApprovals, held[getOwnerAddress])
  /\ ownerPc' = "checked"
  /\ UNCHANGED << funderAddress, held, ownerIdx, ownerGrants >>

\* approveAll(): throws for a proxy wallet, otherwise checks and starts granting
ownerApproveAll ==
  /\ ownerPc = "idle"
  /\ IF isProxyWallet
       THEN /\ ownerPc' = "threw"
            /\ UNCHANGED << ownerReads, ownerCurrent, ownerIdx >>
       ELSE /\ ownerReads' = ReadsFor(getOwnerAddress)
            /\ ownerCurrent' = MissingFrom(OwnerApprovals, held[getOwnerAddress])
            /\ ownerIdx' = 1
            /\ ownerPc' = "approving"
  /\ UNCHANGED << funderAddress, held, ownerGrants >>

\* approveAll(): the next missing approval is granted by a transaction of the
\* signer, whose sender is the owner of the grant
ownerGrant ==
  /\ ownerPc = "approving"
  /\ IF ownerIdx > Len(ownerCurrent)
       THEN /\ ownerPc' = "approved"
            /\ UNCHANGED << held, ownerIdx, ownerGrants >>
       ELSE /\ held' = [held EXCEPT ![SignerAddress] = @ \cup {ownerCurrent[ownerIdx]}]
            /\ ownerGrants' =
                 ownerGrants \cup {[owner |-> SignerAddress, req |-> ownerCurrent[ownerIdx]]}
            /\ ownerIdx' = ownerIdx + 1
            /\ UNCHANGED ownerPc
  /\ UNCHANGED << funderAddress, ownerReads, ownerCurrent >>

\* the call has returned or thrown; the service takes the next call
ownerReturn ==
  /\ ownerPc \in {"checked", "approved", "threw"}
  /\ ownerPc' = "idle"
  /\ ownerReads' = {}
  /\ ownerCurrent' = << >>
  /\ ownerIdx' = 0
  /\ ownerGrants' = {}
  /\ UNCHANGED << funderAddress, held >>

(* ======== initializeTradingServices with AllowanceService.setAllowances ======== *)
\* the approvals setAllowances reads and grants, in its order
AutoApprovals ==
  << "usdcAllowanceCtf", "usdcAllowanceExchange", "conditionalTokensAllowanceExchange" >>

\* faulty sequencing: the credentials are derived after the first approval
GrantsDoneEarly(i) == i > 1

\* setAllowances returns once its three `if` blocks are behind it
GrantsDone(i) == i > Len(AutoApprovals)

\* the initialization promise rejects; every later await of it throws
autoReject(inSetAllowances) ==
  /\ initializationPromise' = "rejected"
  /\ autoPc' = "failed"
  /\ setAllowancesFailed' = (setAllowancesFailed \/ inSetAllowances)

\* approvals the signer address holds before the server first initializes
priorApproval(r) ==
  /\ initializationPromise = "null"
  /\ r \notin signerApproved
  /\ signerApproved' = signerApproved \cup {r}
  /\ UNCHANGED << initializationPromise, orderService, autoPc, autoRead, autoIdx,
                  autoLog, credsRequested, setAllowancesFailed, getterPc, autoOrders >>

\* faulty guard: a rejected promise is not returned, the initialization runs
\* again
InitializingUnlessRejected(p) == p \notin {"null", "rejected"}

\* `if (initializationPromise) return initializationPromise`
Initializing(p) == p # "null"

\* getOrderService(): awaits initializeTradingServices(), which starts the
\* initialization only when no promise exists yet
getOrderService(c) ==
  /\ getterPc[c] = "idle"
  /\ getterPc' = [getterPc EXCEPT ![c] = "awaiting"]
  /\ IF Initializing(initializationPromise)
       THEN UNCHANGED << initializationPromise, autoPc, setAllowancesFailed >>
       ELSE IF Falsy(privateKey)
         THEN autoReject(FALSE)
         ELSE /\ initializationPromise' = "pending"
              /\ autoPc' = "read"
              /\ UNCHANGED setAllowancesFailed
  /\ UNCHANGED << orderService, signerApproved, autoRead, autoIdx, autoLog,
                  credsRequested, autoOrders >>

\* setAllowances: the three allowance reads, or one of them throws
readAllowances ==
  /\ autoPc = "read"
  /\ \/ /\ autoRead' = signerApproved
        /\ autoIdx' = 1
        /\ autoPc' = "grant"
        /\ UNCHANGED << initializationPromise, setAllowancesFailed >>
     \/ /\ autoReject(TRUE)
        /\ UNCHANGED << autoRead, autoIdx >>
  /\ UNCHANGED << orderService, signerApproved, autoLog, credsRequested, getterPc,
                  autoOrders >>

\* setAllowances: the next approval is skipped when it was read as granted,
\* otherwise its transaction is broadcast, or the broadcast throws; after the
\* third, setAllowances returns
setAllowances ==
  /\ autoPc = "grant"
  /\ IF GrantsDone(autoIdx)
       THEN /\ autoPc' = "creds"
            /\ UNCHANGED << initializationPromise, autoIdx, autoLog, setAllowancesFailed >>
       ELSE IF AutoApprovals[autoIdx] \in autoRead
         THEN /\ autoIdx' = autoIdx + 1
              /\ UNCHANGED << initializationPromise, autoPc, autoLog, setAllowancesFailed >>
         ELSE \/ /\ autoLog' = Append(autoLog, [ev |-> "broadcast",
                                                 req |-> AutoApprovals[autoIdx]])
                 /\ autoPc' = "wait"
                 /\ UNCHANGED << initializationPromise, autoIdx, setAllowancesFailed >>
              \/ /\ autoReject(TRUE)
                 /\ UNCHANGED << autoIdx, autoLog >>
  /\ UNCHANGED << orderService, signerApproved, autoRead, credsRequested, getterPc,
                  autoOrders >>

\* setAllowances: `await txn.wait()`: the transaction is confirmed, or it
\* reverted and wait() throws
autoTxnWait ==
  /\ autoPc = "wait"
  /\ \/ /\ signerApproved' = signerApproved \cup {AutoApprovals[autoIdx]}
        /\ autoLog' = Append(autoLog, [ev |-> "confirmed", req |-> AutoApprovals[autoIdx]])
        /\ autoIdx' = autoIdx + 1
        /\ autoPc' = "grant"
        /\ UNCHANGED << initializationPromise, setAllowancesFailed >>
     \/ /\ autoReject(TRUE)
        /\ UNCHANGED << signerApproved, autoLog, autoIdx >>
  /\ UNCHANGED << orderService, autoRead, credsRequested, getterPc, autoOrders >>

\* createOrDeriveApiKey, then the client and the services are built; or the
\* request throws
createOrDeriveApiKey ==
  /\ autoPc = "creds"
  /\ credsRequested' = TRUE
  /\ \/ /\ orderService' = "OrderService"
        /\ initializationPromise' = "fulfilled"
        /\ autoPc' = "done"
        /\ UNCHANGED setAllowancesFailed
     \/ /\ autoReject(FALSE)
        /\ UNCHANGED orderService
  /\ UNCHANGED << signerApproved, autoRead, autoIdx, autoLog, getterPc, autoOrders >>

\* getOrderService(): the awaited promise has settled; the caller gets
\* `orderService` or the rejection
getOrderServiceReturn(c) ==
  /\ getterPc[c] = "awaiting"
  /\ initializationPromise \in {"fulfilled", "rejected"}
  /\ getterPc' = [getterPc EXCEPT ![c] = IF initializationPromise = "fulfilled"
                                           THEN "has" ELSE "threw"]
  /\ UNCHANGED << initializationPromise, orderService, signerApproved, autoPc,
                  autoRead, autoIdx, autoLog, credsRequested, setAllowancesFailed,
                  autoOrders >>

\* handlePlaceMarketOrder: orderService.placeMarketOrder(args) on the service
\* it was handed, or the tool call ends with the rejection
handlePlaceMarketOrder(c) ==
  /\ getterPc[c] \in {"has", "threw"}
  /\ autoOrders' = IF getterPc[c] = "has" /\ orderService = "OrderService"
                     THEN autoOrders \cup {c} ELSE autoOrders
  /\ getterPc' = [getterPc EXCEPT ![c] = "idle"]
  /\ UNCHANGED << initializationPromise, orderService, signerApproved, autoPc,
                  autoRead, autoIdx, autoLog, credsRequested, setAllowancesFailed >>

(* ======== the three getters of the services and the error they pass on ======== *)
Getters == {"getAllowanceService", "getOrderService", "getPortfolioService"}

\* the error of a missing key
KeyRequired == "POLYMARKET_PRIVATE_KEY environment variable is required"

\* step A of the initialization, where a rejection carries the error err
Rejecting(A, err) ==
  /\ A
  /\ rejection' = IF initializationPromise' = "rejected" /\ initializationPromise # "rejected"
                   THEN err ELSE rejection
  /\ UNCHANGED << wanted, received >>

\* getAllowanceService / getOrderService / getPortfolioService: each begins
\* with the same `await initializeTradingServices()`
getService(g, c) ==
  /\ getOrderService(c)
  /\ wanted' = [wanted EXCEPT ![c] = g]
  /\ received' = [received EXCEPT ![c] = "none"]
  /\ rejection' = IF initializationPromise' = "rejected" /\ initializationPromise # "rejected"
                   THEN KeyRequired ELSE rejection

\* the awaited promise has settled: the getter returns its service or throws
\* what the promise rejected with
getServiceReturn(c) ==
  /\ getOrderServiceReturn(c)
  /\ received' = [received EXCEPT ![c] = IF initializationPromise = "rejected"
                                           THEN rejection ELSE "none"]
  /\ UNCHANGED << wanted, rejection >>

\* the tool call that asked for the service ends
toolEnds(c) ==
  /\ getterPc[c] \in {"has", "threw"}
  /\ getterPc' = [getterPc EXCEPT ![c] = "idle"]
  /\ UNCHANGED << initializationPromise, orderService, signerApproved, autoPc,
                  autoRead, autoIdx, autoLog, credsRequested, setAllowancesFailed,
                  autoOrders, serviceVars >>

(* ======== PolymarketRedemption.redeemPositions (redemption.ts) ======== *)
\* what an RPC read answers: a value, or the request fails
RpcAnswers(values) ==
  {[ok |-> TRUE, value |-> v] : v \in values} \cup {[ok |-> FALSE, value |-> 0]}

NoRedeemParams == [tokenId |-> "undefined", outcomeIndex |-> "undefined", negRisk |-> FALSE]

RedeemParams ==
  [tokenId : {"undefined", "", "token1"}, outcomeIndex : {"undefined", "0", "1"},
   negRisk : BOOLEAN]

NoRedeemResult == [returned |-> FALSE, success |-> FALSE, txHash |-> FALSE, error |-> "none"]

\* `return { success: false, error }`
Failure(error) == [returned |-> TRUE, success |-> FALSE, txHash |-> FALSE, error |-> error]

\* getCTFBalance: the balance, or 0n when the read throws
getCTFBalance(answer) == IF answer.ok THEN answer.value ELSE 0

\* isMarketResolved: payoutDenominator.gt(0), or false when the read throws
isMarketResolved(answer) == IF answer.ok THEN answer.value > 0 ELSE FALSE

\* isNegRiskAdapterApproved: `return ctf.isApprovedForAll(...)` hands the
\* promise out of the try block unawaited, so a failed read rejects it
isNegRiskAdapterApproved(answer) ==
  IF answer.ok THEN (IF answer.value = 1 THEN "true" ELSE "false") ELSE "rejected"

\* getWinningIndexSets: the index sets with a payout, or both when a read throws
getWinningIndexSets(answer) ==
  IF ~answer.ok THEN << 1, 2 >>
  ELSE (IF answer.value[1] > 0 THEN << 1 >> ELSE << >>)
         \o (IF answer.value[2] > 0 THEN << 2 >> ELSE << >>)

\* redeemPositions returns `result`
redeemReturn(result) ==
  /\ redeemResult' = result
  /\ redeemPc' = "done"

\* redeemPositions(params)
redeemPositions(params) ==
  /\ redeemPc = "idle"
  /\ redeemParams' = params
  /\ redeemPc' = IF Falsy(params.tokenId) THEN "resolved" ELSE "balance"
  /\ UNCHANGED << tokenBalance, resolvedRead, adapterRead, failedReads, redeemTxs,
                  redeemResult >>

\* `tokenBalance = await this.getCTFBalance(tokenId)` and the zero-balance return
redeemBalance ==
  /\ redeemPc = "balance"
  /\ \E answer \in RpcAnswers(0..MaxBalance) :
       /\ tokenBalance' = getCTFBalance(answer)
       /\ failedReads' = IF answer.ok THEN failedReads ELSE failedReads \cup {"balance"}
       /\ IF getCTFBalance(answer) = 0
          THEN redeemReturn(Failure("No CTF tokens to redeem"))
          ELSE redeemPc' = "resolved" /\ UNCHANGED redeemResult
  /\ UNCHANGED << redeemParams, resolvedRead, adapterRead, redeemTxs >>

\* `resolved = await this.isMarketResolved(...)` and the not-resolved return
redeemResolved ==
  /\ redeemPc = "resolved"
  /\ \E answer \in RpcAnswers(0..1) :
       /\ resolvedRead' = IF isMarketResolved(answer) THEN "true" ELSE "false"
       /\ failedReads' = IF answer.ok THEN failedReads ELSE failedReads \cup {"resolved"}
       /\ IF isMarketResolved(answer)
          THEN redeemPc' = "branch" /\ UNCHANGED redeemResult
          ELSE redeemReturn(Failure("Market has not been resolved yet"))
  /\ UNCHANGED << redeemParams, tokenBalance, adapterRead, redeemTxs >>

\* `if (negRisk)` and, there, the return for a zero balance
redeemBranch ==
  /\ redeemPc = "branch"
  /\ IF redeemParams.negRisk
       THEN IF tokenBalance = 0
            THEN redeemReturn(Failure("tokenId is required for negRisk markets"))
            ELSE redeemPc' = "adapter" /\ UNCHANGED redeemResult
       ELSE redeemPc' = "winning" /\ UNCHANGED redeemResult
  /\ UNCHANGED << redeemParams, tokenBalance, resolvedRead, adapterRead, failedReads,
                  redeemTxs >>

\* `adapterApproved = await this.isNegRiskAdapterApproved()`: a rejection is
\* caught by redeemPositions' own catch block
redeemAdapter ==
  /\ redeemPc = "adapter"
  /\ \E answer \in RpcAnswers(0..1) :
       /\ adapterRead' = isNegRiskAdapterApproved(answer)
       /\ failedReads' = IF answer.ok THEN failedReads ELSE failedReads \cup {"adapter"}
       /\ CASE isNegRiskAdapterApproved(answer) = "true" ->
                 redeemPc' = "send" /\ UNCHANGED redeemResult
            [] isNegRiskAdapterApproved(answer) = "false" ->
                 redeemReturn(Failure("NegRiskAdapter is not approved"))
            [] OTHER -> redeemReturn(Failure("rpc error"))
  /\ UNCHANGED << redeemParams, tokenBalance, resolvedRead, redeemTxs >>

\* `winningIndexSets = await this.getWinningIndexSets(...)` and the return
\* when there is none
redeemWinning ==
  /\ redeemPc = "winning"
  /\ \E answer \in RpcAnswers((0..1) \X (0..1)) :
       IF Len(getWinningIndexSets(answer)) = 0
       THEN redeemReturn(Failure("No winning outcomes found"))
       ELSE redeemPc' = "send" /\ UNCHANGED redeemResult
  /\ UNCHANGED << redeemParams, tokenBalance, resolvedRead, adapterRead, failedReads,
                  redeemTxs >>

\* negRiskAdapter.redeemPositions / ctf.redeemPositions: the node accepts the
\* transaction, or the call throws into the catch block
redeemSend ==
  /\ redeemPc = "send"
  /\ \/ /\ redeemTxs' = redeemTxs + 1
        /\ redeemPc' = "wait"
        /\ UNCHANGED redeemResult
     \/ /\ redeemReturn(Failure("rpc error"))
        /\ UNCHANGED redeemTxs
  /\ UNCHANGED << redeemParams, tokenBalance, resolvedRead, adapterRead, failedReads >>

\* `receipt = await tx.wait(1)`: mined, reverted, or wait throws
redeemWait ==
  /\ redeemPc = "wait"
  /\ \/ redeemReturn([returned |-> TRUE, success |-> TRUE, txHash |-> TRUE,
                       error |-> "none"])
     \/ redeemReturn([returned |-> TRUE, success |-> FALSE, txHash |-> TRUE,
                       error |-> "Transaction reverted on-chain"])
     \/ redeemReturn(Failure("rpc error"))
  /\ UNCHANGED << redeemParams, tokenBalance, resolvedRead, adapterRead, failedReads,
                  redeemTxs >>

(* ===== MarketResolverService.resolveMarketDetails (market-resolver.service.ts) ===== *)
\* argument values: omitted, the empty string, a value
SlugArgs == {"undefined", "", "will-it-rain"}
OutcomeArgs == {"undefined", "YES", "NO"}
TokenIdArgs == {"undefined", "", "999"}
TickSizeArgs == {"undefined", "", "0.001"}

DEFAULT_TICK_SIZE == "0.01"

\* market.clobTokenIds as the server sends it: absent, or a string
ClobTokenIds ==
  {"undefined", "not json", "null", "7", "\"111\"", "[]", "[\"111\"]",
   "[\"111\",\"222\"]"}

\* JSON.parse of those strings (undefined is parsed as the text "undefined")
JSONparse(str) ==
  CASE str = "null" -> [ok |-> TRUE, kind |-> "null", items |-> << >>]
    [] str = "7" -> [ok |-> TRUE, kind |-> "number", items |-> << >>]
    [] str = "\"111\"" -> [ok |-> TRUE, kind |-> "string", items |-> <<"1", "1", "1">>]
    [] str = "[]" -> [ok |-> TRUE, kind |-> "array", items |-> << >>]
    [] str = "[\"111\"]" -> [ok |-> TRUE, kind |-> "array", items |-> <<"111">>]
    [] str = "[\"111\",\"222\"]" -> [ok |-> TRUE, kind |-> "array", items |-> <<"111", "222">>]
    [] OTHER -> [ok |-> FALSE, kind |-> "SyntaxError", items |-> << >>]

\* tokenIds[i] (i counted from 0): an element, a character of a string,
\* undefined, or a TypeError on null
Index(v, i) ==
  IF v.kind = "null" THEN "TypeError"
  ELSE IF i + 1 \in DOMAIN v.items THEN v.items[i + 1] ELSE "undefined"

\* market.orderPriceMinTickSize in thousandths, 0 when the field is absent
TickSizes == {0, 1, 10}

\* Number.prototype.toString for those values
tickToString(n) == IF n = 10 THEN "0.01" ELSE IF n = 1 THEN "0.001" ELSE "TypeError"

\* what the lookup can answer: a failed status, a body that is not JSON, null,
\* an empty list, or a list whose first market has these fields
Answers ==
  {[ok |-> FALSE, body |-> "markets", clobTokenIds |-> "[]", orderPriceMinTickSize |-> 0],
   [ok |-> TRUE, body |-> "not json", clobTokenIds |-> "[]", orderPriceMinTickSize |-> 0],
   [ok |-> TRUE, body |-> "null", clobTokenIds |-> "[]", orderPriceMinTickSize |-> 0],
   [ok |-> TRUE, body |-> "[]", clobTokenIds |-> "[]", orderPriceMinTickSize |-> 0]}
  \cup [ok : {TRUE}, body : {"markets"}, clobTokenIds : ClobTokenIds,
        orderPriceMinTickSize : TickSizes]

NoAnswer == [ok |-> FALSE, body |-> "none", clobTokenIds |-> "[]", orderPriceMinTickSize |-> 0]

NoArgs ==
  [marketSlug |-> "undefined", outcome |-> "undefined", tokenId |-> "undefined",
   tickSize |-> "undefined"]

NoMarketInfo == [slug |-> "null", clobTokenIds |-> << >>, tickSize |-> "null"]

NoDetails ==
  [tokenId |-> "none", tickSize |-> "none", marketInfo |-> NoMarketInfo,
   outcome |-> "undefined"]

\* an Error: its message template and the slug the message names
ErrorOf(text, slug) == [text |-> text, slug |-> slug]

NoResolveError == ErrorOf("none", "none")

\* `!tokenId && (!marketSlug || !outcome)`
ValidationFails(a) == Falsy(a.tokenId) /\ (Falsy(a.marketSlug) \/ Falsy(a.outcome))

\* faulty branch: the direct path is taken only when no slug came along
DirectPathNoSlug(a) == ~Falsy(a.tokenId) /\ Falsy(a.marketSlug)

\* `if (tokenId)`
DirectPath(a) == ~Falsy(a.tokenId)

\* faulty choice: the outcomes are swapped
PickTokenSwapped(outcome, tokenIds) ==
  IF outcome = "YES" THEN Index(tokenIds, 1) ELSE Index(tokenIds, 0)

\* `outcome === "YES" ? tokenIds[0] : tokenIds[1]`
PickToken(outcome, tokenIds) ==
  IF outcome = "YES" THEN Index(tokenIds, 0) ELSE Index(tokenIds, 1)

\* the slug path from the answer on: the result, or the error thrown
SlugPath(a, ans) ==
  LET parsed == JSONparse(ans.clobTokenIds)
      resolvedTokenId == PickToken(a.outcome, parsed)
      resolvedTickSize == tickToString(ans.orderPriceMinTickSize)
      fail(e) == [threw |-> TRUE, error |-> e, details |-> NoDetails]
  IN  IF ~ans.ok
        THEN fail(ErrorOf("Failed to fetch market details", a.marketSlug))
      ELSE IF ans.body = "not json"
        THEN fail(ErrorOf("SyntaxError", "none"))
      ELSE IF ans.body \in {"null", "[]"}
        THEN fail(ErrorOf("Market not found", a.marketSlug))
      ELSE IF ~parsed.ok
        THEN fail(ErrorOf("Failed to parse clobTokenIds", a.marketSlug))
      ELSE IF resolvedTokenId = "TypeError" \/ resolvedTickSize = "TypeError"
        THEN fail(ErrorOf("TypeError", "none"))
      ELSE [threw |-> FALSE, error |-> NoResolveError,
            details |-> [tokenId |-> resolvedTokenId, tickSize |-> resolvedTickSize,
                         marketInfo |-> [slug |-> a.marketSlug,
                                         clobTokenIds |-> parsed.items,
                                         tickSize |-> resolvedTickSize],
                         outcome |-> a.outcome]]

\* resolveMarketDetails up to its first await: the validation error, the
\* direct result, or the lookup request
resolveMarketDetails(a) ==
  /\ rPc = "idle"
  /\ rArgs' = a
  /\ IF ValidationFails(a)
     THEN /\ rPc' = "threw"
          /\ rError' = ErrorOf("Either provide tokenId directly", "none")
          /\ UNCHANGED << rResult, rRequests >>
     ELSE IF DirectPath(a)
     THEN /\ rPc' = "returned"
          /\ rResult' = [tokenId |-> a.tokenId,
                         tickSize |-> IF Falsy(a.tickSize) THEN DEFAULT_TICK_SIZE
                                      ELSE a.tickSize,
                         marketInfo |-> NoMarketInfo, outcome |-> "undefined"]
          /\ UNCHANGED << rError, rRequests >>
     ELSE /\ rPc' = "fetch"
          /\ rRequests' = rRequests + 1
          /\ UNCHANGED << rResult, rError >>
  /\ UNCHANGED rAnswer

\* the lookup answers
marketsResponse(ans) ==
  /\ rPc = "fetch"
  /\ rAnswer' = ans
  /\ LET out == SlugPath(rArgs, ans)
     IN  /\ rPc' = IF out.threw THEN "threw" ELSE "returned"
         /\ rError' = out.error
         /\ rResult' = out.details
  /\ UNCHANGED << rArgs, rRequests >>

(* ---------------------------- specification ---------------------------- *)
\* chain states the process can start on: every requirement granted or not,
\* at most MaxMissing of them missing
InitialAllowances(v) ==
  { a \in [SeqToSet(ApprovalsOf(v)) -> 0..MaxUint256] :
      /\ \A r \in DOMAIN a : a[r] \in {0, GrantValue(r)}
      /\ Cardinality({r \in DOMAIN a : a[r] = 0}) <= MaxMissing }

InitState ==
  /\ variant \in Variants
  /\ allowance \in InitialAllowances(variant)
  /\ mempool = {}
  /\ extChanges = 0
  /\ toolPc = "idle"
  /\ toolResult = NoResult
  /\ pc = "idle"
  /\ opts = NoOpts
  /\ current = << >>
  /\ waitConfs = 0
  /\ nextNonce = 0
  /\ idx = 0
  /\ txHashes = << >>
  /\ actions = 0
  /\ message = ""
  /\ mined = FALSE
  /\ sends = << >>
  /\ caught = NoErr
  /\ refreshed = 0
  /\ broadcasts = 0
  /\ lastNonce = 0
  /\ attempted = {}
  /\ calls = 0
  /\ prevBroadcasts = 0
  /\ client = FALSE
  /\ initPromise = "null"
  /\ initPc = "none"
  /\ derivations = 0
  /\ initRuns = 0
  /\ initFailures = 0
  /\ marketParamsCache = [t \in Tokens |-> NoParams]
  /\ tpc = [c \in Callers |-> "idle"]
  /\ targs = [c \in Callers |-> [op |-> "placeOrder", tokenId |-> "tokenA"]]
  /\ status = [c \in Callers |-> << >>]
  /\ checked = [c \in Callers |-> FALSE]
  /\ terr = [c \in Callers |-> "none"]
  /\ issued = [c \in Callers |-> {}]
  /\ orders = {}
  /\ response = [c \in Callers |-> NoResponse]
  /\ tcalls = 0
  /\ rArgs = NoArgs
  /\ rPc = "idle"
  /\ rAnswer = NoAnswer
  /\ rResult = NoDetails
  /\ rError = NoResolveError
  /\ rRequests = 0
  /\ feeData = NoFeeData
  /\ floorPri = 0
  /\ feeOverrides = NoFeeOverrides
  /\ feePc = "idle"
  /\ serverPc = "boot"
  /\ registered = {}
  /\ tradingInstance = FALSE
  /\ log = << >>
  /\ exchangeTick = [t \in Tokens |-> "0.01"]
  /\ ipc = [i \in Invocations |-> "idle"]
  /\ icurrent = [i \in Invocations |-> << >>]
  /\ inonce = [i \in Invocations |-> 0]
  /\ iidx = [i \in Invocations |-> 0]
  /\ pendingCount = 0
  /\ txpool = {}
  /\ broadcast = {}
  /\ oArgs = NoOrderArgs
  /\ oOrder = NoOrder
  /\ oPc = "idle"
  /\ funderAddress = "undefined"
  /\ held = [o \in OwnerAddresses |-> {}]
  /\ ownerPc = "new"
  /\ ownerReads = {}
  /\ ownerCurrent = << >>
  /\ ownerIdx = 0
  /\ ownerGrants = {}
  /\ initializationPromise = "null"
  /\ orderService = "undefined"
  /\ signerApproved = {}
  /\ autoPc = "none"
  /\ autoRead = {}
  /\ autoIdx = 0
  /\ autoLog = << >>
  /\ credsRequested = FALSE
  /\ setAllowancesFailed = FALSE
  /\ getterPc = [c \in Callers |-> "idle"]
  /\ autoOrders = {}
  /\ wanted = [c \in Callers |-> "none"]
  /\ rejection = "none"
  /\ received = [c \in Callers |-> "none"]
  /\ redeemParams = NoRedeemParams
  /\ redeemPc = "idle"
  /\ tokenBalance = 0
  /\ resolvedRead = "unread"
  /\ adapterRead = "unread"
  /\ failedReads = {}
  /\ redeemTxs = 0
  /\ redeemResult = NoRedeemResult

\* a process started with a signing key in its environment
Init == InitState /\ privateKey = "0xkey"

ApprovalsNext ==
  \/ pc = "idle" /\ \E o \in OptsOf(variant) : approveAll(o)
  \/ approveAllAgain
  \/ approveAllCheck
  \/ buildFeeOverrides
  \/ getPendingNonce
  \/ trySend
  \/ txWait
  \/ refreshNonce
  \/ retrySend
  \/ retryWait
  \/ \E r \in mempool : Mine(r)
  \/ pc = "idle" /\ \E args \in OptsOf("refCounter") : approveAllowancesTool(args)
  \/ toolBefore
  \/ toolAfter

Next == ApprovalsNext /\ UNCHANGED << tradingVars, libVars >>

\* the approvals service and its tool on a chain nobody else writes to
Spec == Init /\ [][Next]_vars

\* approveAll with the default selection for every waitForConfirmations, a
\* negative one included
WaitOpts(v) ==
  [sel : {[r \in SeqToSet(ApprovalsOf(v)) |-> "undefined"]}, force : {FALSE},
   wait : (-1)..MaxWait]

NextWait ==
  /\ \/ \E o \in WaitOpts(variant) : approveAll(o)
     \/ approveAllCheck
     \/ buildFeeOverrides
     \/ getPendingNonce
     \/ trySend
     \/ txWait
     \/ refreshNonce
     \/ retrySend
     \/ retryWait
     \/ \E r \in mempool : Mine(r)
  /\ UNCHANGED << tradingVars, libVars >>

SpecWait == Init /\ [][NextWait]_vars

\* check() at the head of approveAll, for every amount of every allowance
NextCheck ==
  /\ \/ /\ pc = "idle"
        /\ \E r \in DOMAIN allowance : \E v \in 0..GrantValue(r) : ExternalApprove(r, v)
     \/ pc = "idle" /\ approveAll(NoOpts)
     \/ approveAllCheck
  /\ UNCHANGED << tradingVars, libVars >>

SpecCheck == Init /\ [][NextCheck]_vars

\* the reference-counter build while another party revokes an allowance; one
\* revoke tells the runs apart, what approveAll does after it is the same
\* whatever follows
InitOtherParty == Init /\ variant = "refCounter"

NextOtherParty ==
  \/ Next
  \/ \E r \in DOMAIN allowance :
       extChanges = 0 /\ ExternalRevoke(r) /\ UNCHANGED << tradingVars, libVars >>

SpecOtherParty == InitOtherParty /\ [][NextOtherParty]_vars

\* PolymarketTrading's order calls, two concurrent callers, while another
\* party revokes allowances
approvalLocals ==
  << variant, mempool, toolPc, toolResult, pc, opts, current, waitConfs, nextNonce,
     idx, txHashes, actions, message, mined, sendVars, acceptVars, attempted, callVars >>

NextTrading ==
  \/ /\ \/ \E c \in Callers, op \in OrderOps, t \in Tokens :
             tradeCall(c, [op |-> op, tokenId |-> t])
        \/ \E c \in Callers, op \in CancelOps :
             tradeCall(c, [op |-> op, tokenId |-> "none"])
        \/ deriveApiKey
        \/ createApiKey
        \/ initialized
        \/ \E c \in Callers : assertApprovals(c)
        \/ \E c \in Callers : getMarketParams(c)
        \/ \E c \in Callers : createAndPost(c)
        \/ \E c \in Callers : cancelRequest(c)
     /\ UNCHANGED << approvalVars, libVars >>
  \/ \E r \in DOMAIN allowance :
       ExternalRevoke(r) /\ UNCHANGED << tradingVars, libVars >>

SpecTrading == InitOtherParty /\ [][NextTrading]_vars

\* one client that makes its calls one after another, either order and cancel
\* calls or approveAll and approveAll again, while another party revokes
\* allowances
NextSequential ==
  \/ /\ pc = "idle"
     /\ \/ \E op \in OrderOps : tradeCall("c1", [op |-> op, tokenId |-> "tokenA"])
        \/ \E op \in CancelOps : tradeCall("c1", [op |-> op, tokenId |-> "none"])
        \/ deriveApiKey
        \/ createApiKey
        \/ initialized
        \/ assertApprovals("c1")
        \/ getMarketParams("c1")
        \/ createAndPost("c1")
        \/ cancelRequest("c1")
     /\ UNCHANGED << approvalVars, libVars >>
  \/ /\ tcalls = 0
     /\ \/ approveAll(NoOpts)
        \/ approveAllAgain
        \/ approveAllCheck
        \/ buildFeeOverrides
        \/ getPendingNonce
        \/ trySend
        \/ refreshNonce
        \/ retrySend
        \/ \E r \in mempool : Mine(r)
     /\ UNCHANGED << tradingVars, libVars >>
  \/ \E r \in DOMAIN allowance :
       ExternalRevoke(r) /\ UNCHANGED << tradingVars, libVars >>

SpecSequential == InitOtherParty /\ [][NextSequential]_vars

\* the exchange lowers a token's tick size while no call is running
changeTickSize(t) ==
  /\ \A c \in Callers : tpc[c] \in {"idle", "done", "threw"}
  /\ exchangeTick[t] = "0.01"
  /\ exchangeTick' = [exchangeTick EXCEPT ![t] = "0.001"]

\* placeOrder and placeMarketOrder, two concurrent callers, while the
\* exchange changes market parameters between calls
NextMarketParams ==
  \/ /\ \/ \E c \in Callers, op \in OrderOps, t \in Tokens :
             tradeCall(c, [op |-> op, tokenId |-> t])
        \/ deriveApiKey
        \/ createApiKey
        \/ initialized
        \/ \E c \in Callers : assertApprovals(c)
        \/ \E c \in Callers : getMarketParams(c)
        \/ \E c \in Callers : createAndPost(c)
     /\ UNCHANGED << approvalVars, libVars >>
  \/ /\ \E t \in Tokens : changeTickSize(t)
     /\ UNCHANGED << approvalVars, tradingVars, resolverVars, feeVars, serverVars,
                     invocationVars, orderVars, ownerVars, autoVars, serviceVars, redeemVars >>

SpecMarketParams == InitOtherParty /\ [][NextMarketParams]_vars

\* two approve_allowances calls in flight for the same account
NextConcurrent ==
  /\ \E i \in Invocations :
       \/ invokeApproveAll(i)
       \/ invocationCheck(i)
       \/ invocationFee(i)
       \/ invocationNonce(i)
       \/ invocationSend(i)
       \/ invocationRequery(i)
       \/ invocationRetry(i)
  /\ UNCHANGED << approvalVars, tradingVars, resolverVars, feeVars, serverVars,
                  exchangeVars, orderVars, ownerVars, autoVars, serviceVars, redeemVars >>

SpecConcurrent == InitOtherParty /\ [][NextConcurrent]_vars

\* PolymarketApprovals built with or without a funder address, check() and
\* approveAll() called on it, the proxy wallet's approvals set elsewhere
NextOwner ==
  /\ \/ \E f \in FunderAddresses : constructApprovals(f)
     \/ \E r \in SeqToSet(OwnerApprovals) : setViaUI(r)
     \/ ownerCheck
     \/ ownerApproveAll
     \/ ownerGrant
     \/ ownerReturn
  /\ UNCHANGED << approvalVars, tradingVars, resolverVars, feeVars, serverVars,
                  exchangeVars, invocationVars, orderVars, autoVars, serviceVars, redeemVars >>

SpecOwner == InitOtherParty /\ [][NextOwner]_vars

\* one placeOrder or placeMarketOrder call for every side, amount, price and
\* size
NextOrderArgs ==
  /\ \/ \E t \in Tokens, sd \in Sides, a \in 1..MaxAmount :
          placeMarketOrder([op |-> "placeMarketOrder", tokenId |-> t, side |-> sd,
                            amount |-> a, price |-> 0, size |-> 0])
     \/ \E t \in Tokens, sd \in Sides, pr \in Prices, sz \in 1..MaxAmount :
          placeOrder([op |-> "placeOrder", tokenId |-> t, side |-> sd, amount |-> 0,
                      price |-> pr, size |-> sz])
     \/ createAndPostUserOrder
  /\ UNCHANGED << approvalVars, tradingVars, resolverVars, feeVars, serverVars,
                  exchangeVars, invocationVars, ownerVars, autoVars, serviceVars, redeemVars >>

SpecOrderArgs == InitOtherParty /\ [][NextOrderArgs]_vars

\* PolymarketTrading's cancel, read and update calls, two concurrent callers,
\* while another party revokes allowances
NextTradingOps ==
  \/ /\ \/ \E c \in Callers, op \in CancelOps \cup ReadOps \cup UpdateOps :
             tradeCall(c, [op |-> op, tokenId |-> "none"])
        \/ deriveApiKey
        \/ createApiKey
        \/ initialized
        \/ \E c \in Callers : assertApprovals(c)
        \/ \E c \in Callers : cancelRequest(c)
        \/ \E c \in Callers : exchangeRequest(c)
     /\ UNCHANGED << approvalVars, libVars >>
  \/ \E r \in DOMAIN allowance :
       ExternalRevoke(r) /\ UNCHANGED << tradingVars, libVars >>

SpecTradingOps == InitOtherParty /\ [][NextTradingOps]_vars

\* one resolveMarketDetails call for every argument combination and every
\* answer of the market-data server
InitResolver ==
  /\ InitOtherParty
  /\ \A r \in DOMAIN allowance : allowance[r] # 0

NextResolver ==
  /\ \/ \E slug \in SlugArgs, o \in OutcomeArgs, t \in TokenIdArgs, ts \in TickSizeArgs :
          resolveMarketDetails([marketSlug |-> slug, outcome |-> o, tokenId |-> t,
                                tickSize |-> ts])
     \/ \E ans \in Answers : marketsResponse(ans)
  /\ UNCHANGED << approvalVars, tradingVars, feeVars, serverVars, exchangeVars,
                  invocationVars, orderVars, ownerVars, autoVars, serviceVars, redeemVars >>

SpecResolver == InitResolver /\ [][NextResolver]_vars

\* one buildFeeOverrides call for every fee suggestion and every floor
NextFees ==
  /\ \/ \E fd \in FeeDatas, fl \in 0..MaxFloor : getFeeData(fd, fl)
     \/ buildFeeOverridesReturn
  /\ UNCHANGED << approvalVars, tradingVars, resolverVars, serverVars, exchangeVars,
                  invocationVars, orderVars, ownerVars, autoVars, serviceVars, redeemVars >>

SpecFees == InitResolver /\ [][NextFees]_vars

\* the server and the library entry points, with and without a signing key
InitServer ==
  /\ InitState
  /\ variant = "refCounter"
  /\ \A r \in DOMAIN allowance : allowance[r] # 0
  /\ privateKey \in PrivateKeys

NextServer ==
  /\ \/ main
     \/ \E t \in ReadOnlyTools : readOnlyTool(t)
     \/ \E t \in TradingTools : tradingTool(t)
     \/ \E m \in TradeMethods : tradeApi(m)
     \/ newPolymarketApprovals
  /\ UNCHANGED << approvalVars, tradingVars, resolverVars, feeVars, exchangeVars,
                  invocationVars, orderVars, ownerVars, autoVars, serviceVars, redeemVars >>

SpecServer == InitServer /\ [][NextServer]_vars

\* the auto-approve services: tool calls that ask for the OrderService, with
\* and without a signing key, whatever approvals the signer already holds
NextAutoApprove ==
  /\ \/ \E r \in SeqToSet(AutoApprovals) : priorApproval(r)
     \/ \E c \in Callers : getOrderService(c)
     \/ readAllowances
     \/ setAllowances
     \/ autoTxnWait
     \/ createOrDeriveApiKey
     \/ \E c \in Callers : getOrderServiceReturn(c)
     \/ \E c \in Callers : handlePlaceMarketOrder(c)
  /\ UNCHANGED << approvalVars, tradingVars, resolverVars, feeVars, serverVars,
                  exchangeVars, invocationVars, orderVars, ownerVars, serviceVars, redeemVars >>

SpecAutoApprove == InitServer /\ [][NextAutoApprove]_vars

\* the same services asked for through any of the three getters, every failure
\* of the initialization carrying its error
NextServices ==
  /\ \/ \E r \in SeqToSet(AutoApprovals) : Rejecting(priorApproval(r), "none")
     \/ \E c \in Callers : getterPc[c] = "idle" /\ \E g \in Getters : getService(g, c)
     \/ Rejecting(readAllowances, "allowance read failed")
     \/ Rejecting(setAllowances, "approve failed")
     \/ Rejecting(autoTxnWait, "transaction failed")
     \/ Rejecting(createOrDeriveApiKey, "createOrDeriveApiKey failed")
     \/ \E c \in Callers : getServiceReturn(c)
     \/ \E c \in Callers : toolEnds(c)
  /\ UNCHANGED << approvalVars, tradingVars, resolverVars, feeVars, serverVars,
                  exchangeVars, invocationVars, orderVars, ownerVars, redeemVars >>

SpecServices == InitServer /\ [][NextServices]_vars

NextRedeem ==
  /\ \/ \E params \in RedeemParams : redeemPositions(params)
     \/ redeemBalance
     \/ redeemResolved
     \/ redeemBranch
     \/ redeemAdapter
     \/ redeemWinning
     \/ redeemSend
     \/ redeemWait
  /\ UNCHANGED << approvalVars, tradingVars, resolverVars, feeVars, serverVars,
                  exchangeVars, invocationVars, orderVars, ownerVars, autoVars,
                  serviceVars >>

SpecRedeem == InitOtherParty /\ [][NextRedeem]_vars

(* ============================== properties ============================= *)
DefaultSelection == \A r \in DOMAIN opts.sel : opts.sel[r] # "false"

SelectedReqs == {r \in DOMAIN opts.sel : opts.sel[r] # "false"}

\* errors of the nonce-conflict / replacement class
NonceClass == {e \in Errors : e.code = -32000 \/ e.msg = "replace" \/ e.msg = "nonce"}

\* C1 as stated: whenever an order-entry call is issued, the owner's on-chain
\* allowance state has an empty `missing`, whatever another party did between
\* the check and the submission.
C1_OnChainAtSubmission == \A o \in orders : Len(o.onChainMissing) = 0

\* C1 as amended: whenever an order-entry call is issued, the allowance check
\* made earlier in the same call has answered with an empty `missing`.
C1_CheckedBeforeSubmission ==
  /\ \A o \in orders : o.checked /\ Len(o.checkedMissing) = 0
  /\ \A c \in Callers : tpc[c] \in {"fetch", "post"} => checked[c] /\ Len(status[c]) = 0

\* an order was issued on an empty check although the chain then had a
\* requirement missing
C1_Witness ==
  \E o \in orders : o.checked /\ Len(o.checkedMissing) = 0 /\ Len(o.onChainMissing) > 0

\* C2: when the check inside placeOrder / placeMarketOrder reports a non-empty
\* `missing`, the call ends with ApprovalRequiredError, sends no exchange
\* request after the check, and leaves the market-parameter cache as it was.
C2_NoRequestAfterFailedCheck ==
  /\ [](\A c \in Callers :
          checked[c] /\ Len(status[c]) > 0 =>
            tpc[c] = "threw" /\ terr[c] = "APPROVAL_REQUIRED" /\ issued[c] = {})
  /\ [][\A c \in Callers :
          ~checked[c] /\ checked'[c] /\ Len(status'[c]) > 0 =>
            /\ marketParamsCache' = marketParamsCache
            /\ orders' = orders
            /\ issued'[c] = {}]_vars

\* a call ended with ApprovalRequiredError while the other caller's order went
\* through and the cache holds an entry
C2_Witness ==
  \E c \in Callers :
    /\ checked[c] /\ Len(status[c]) > 0 /\ terr[c] = "APPROVAL_REQUIRED"
    /\ orders # {}
    /\ \E t \in Tokens : marketParamsCache[t] # NoParams

\* C3: sendWithNonceAndRetry invokes the broadcaster at most twice; the second
\* invocation follows an error of the nonce-conflict / replacement class and
\* the re-query of the pending count, and carries the re-queried nonce; when
\* it fails too the error is raised and nothing is sent a third time.
C3_RetryOnce ==
  [][variant = "refCounter" =>
       /\ Len(sends') <= 2
       /\ (pc' = "requery" => caught' \in NonceClass)
       /\ (pc' = "retry" /\ pc # "retry" => pc = "requery" /\ Len(sends) = 1)
       /\ (Len(sends') = 2 /\ Len(sends) = 1 => pc = "retry" /\ sends'[2] = refreshed)
       /\ (pc \in {"retry", "retryWait"} /\ pc' # pc /\ idx' = idx =>
             pc' \in {"retryWait", "threw"})]_vars

\* a retried grant went through with the re-queried nonce
C3_Witness ==
  /\ variant = "refCounter"
  /\ Len(sends) = 2
  /\ sends[2] = refreshed
  /\ sends[2] # sends[1]
  /\ pc = "returned"

\* C4: within one approveAll call the nonces carried by the accepted grant
\* transactions are strictly increasing in broadcast order.
C4_NoncesIncrease ==
  [][broadcasts' = broadcasts + 1 /\ broadcasts >= 1 => lastNonce' > lastNonce]_vars

\* C5 as stated: for every waitForConfirmations >= 0 the tool, having called
\* approveAll with the default selection, reports success = true.
C5_ToolSuccess ==
  toolPc = "done" /\ ~toolResult.alreadyApproved /\ DefaultSelection /\ extChanges = 0
    => toolResult.success

\* C5 as amended: with waitForConfirmations > 0, the default selection and no
\* other party changing the allowances, check after a returned approveAll finds
\* nothing missing and the tool reports success = true.
C5_ConfirmedThenApproved ==
  DefaultSelection /\ opts.wait > 0 /\ extChanges = 0 =>
    /\ (pc = "returned" => Len(check(variant, allowance)) = 0)
    /\ (toolPc = "done" /\ ~toolResult.alreadyApproved => toolResult.success)

\* the tool granted something, waited for it and reports success
C5_Witness ==
  /\ toolPc = "done"
  /\ ~toolResult.alreadyApproved
  /\ DefaultSelection /\ opts.wait > 0 /\ extChanges = 0
  /\ Len(toolResult.txHashes) = MaxMissing
  /\ toolResult.success

\* C6 as stated: approveAll called again without force invokes no broadcaster,
\* for every waitForConfirmations of the first call.
C6_SecondCallSilent ==
  calls >= 2 /\ ~opts.force /\ extChanges = 0 => attempted = {}

\* C6 as amended: approveAll called again without force, after a call that
\* waited for its confirmations (waitForConfirmations > 0) and with no other
\* party changing the allowances, invokes no broadcaster.
C6_SecondCallSilentAfterWait ==
  calls >= 2 /\ ~opts.force /\ opts.wait > 0 /\ extChanges = 0 =>
    attempted = {} /\ broadcasts = 0

\* the second call returned without a transaction after a first call that
\* had broadcast
C6_Witness ==
  /\ calls = 2 /\ pc = "returned"
  /\ ~opts.force /\ opts.wait > 0 /\ extChanges = 0
  /\ prevBroadcasts > 0
  /\ broadcasts = 0

\* C7: approveAll with waitForConfirmations = 0, the default selection and no
\* force returns one hash per requirement the initial check reported
\* missing, in the requirement order (none when nothing is missing).
C7_OneHashPerMissing ==
  pc = "returned" /\ opts.wait = 0 /\ DefaultSelection /\ ~opts.force =>
    /\ Len(txHashes) = Len(current)
    /\ \A i \in DOMAIN txHashes : txHashes[i].req = current[i]
    /\ \A i, j \in DOMAIN current :
         i < j => \E m, n \in DOMAIN ApprovalsOf(variant) :
                    m < n /\ ApprovalsOf(variant)[m] = current[i]
                          /\ ApprovalsOf(variant)[n] = current[j]

\* two requirements were missing and two hashes came back, each from a first
\* broadcast
C7_Witness ==
  /\ pc = "returned" /\ opts.wait = 0 /\ DefaultSelection /\ ~opts.force
  /\ Len(current) = 2
  /\ Len(txHashes) = 2
  /\ \A i \in DOMAIN txHashes : txHashes[i].send = 1

\* C8: approveAll invokes the broadcaster for r only if r is selected and
\* (r was missing at the initial check or force is set), and a call that
\* returns has done so for every such r.
C8_TxIffSelectedAndDue ==
  LET due == {r \in SelectedReqs : opts.force \/ r \in SeqToSet(current)}
  IN  /\ attempted \subseteq due
      /\ (pc = "returned" => attempted = due)

\* under force a granted requirement got a transaction while a missing,
\* unselected one got none
C8_Witness ==
  /\ pc = "returned"
  /\ opts.force
  /\ \E r \in SeqToSet(current) : opts.sel[r] = "false" /\ r \notin attempted
  /\ \E r \in attempted : r \notin SeqToSet(current)

\* C9: the approve_allowances tool called with force = true sends a grant for
\* every selected requirement, also when nothing is missing.
C9_ForceSends ==
  toolPc = "done" /\ opts.force => SelectedReqs \subseteq attempted

\* C10: approveAll returns the no-op message exactly when it broadcast
\* nothing, then with empty txHashes; otherwise the message is "submitted"
\* for waitForConfirmations = 0 and "confirmed" for waitForConfirmations > 0.
C10_MessageMatchesBroadcasts ==
  pc = "returned" =>
    /\ (message = "No transactions needed") <=> (broadcasts = 0)
    /\ (broadcasts = 0 => txHashes = << >>)
    /\ (broadcasts > 0 =>
          message = IF opts.wait > 0 THEN "confirmed" ELSE "submitted")

\* a call that waited for its one grant answers "confirmed"
C10_Witness ==
  /\ pc = "returned"
  /\ broadcasts > 0
  /\ opts.wait > 0
  /\ message = "confirmed"

\* C11: a call ends with ApprovalRequiredError exactly when its check returned
\* a non-empty `missing`; the error carries code APPROVAL_REQUIRED, the check
\* status in `details` and the grant tool as next step; the order and cancel
\* tools answer it as a response with approvalRequired = true and rethrow
\* every other error as it came.
C11_ApprovalRequiredAnswered ==
  \A c \in Callers :
    /\ checked[c] => ((terr[c] = "APPROVAL_REQUIRED") <=> (Len(status[c]) > 0))
    /\ ~checked[c] => terr[c] # "APPROVAL_REQUIRED"
    /\ terr[c] = "APPROVAL_REQUIRED" =>
         /\ response[c].returned
         /\ response[c].thrown = NoError
         /\ response[c].body.approvalRequired
         /\ response[c].body.code = "APPROVAL_REQUIRED"
         /\ response[c].body.details = status[c]
         /\ response[c].body.nextStep = "approve_allowances"
    /\ terr[c] \notin {"none", "APPROVAL_REQUIRED"} =>
         /\ ~response[c].returned
         /\ response[c].thrown.name = "Error"
         /\ response[c].thrown.code = terr[c]
    /\ response[c].body.approvalRequired => terr[c] = "APPROVAL_REQUIRED"

\* a cancel tool answered approvalRequired while another call's error was
\* rethrown
C11_Witness ==
  \E c, d \in Callers :
    /\ targs[c].op \in CancelOps
    /\ response[c].returned /\ response[c].body.approvalRequired
    /\ Len(response[c].body.details) > 0
    /\ ~response[d].returned /\ response[d].thrown.name = "Error"

\* an optional string argument that was passed with a value
Supplied(x) == x \notin {"undefined", ""}

\* the instrument ids of the answered market, when its list is an array
InstrumentIds ==
  IF rAnswer.clobTokenIds = "[\"111\",\"222\"]" THEN {"111", "222"}
  ELSE IF rAnswer.clobTokenIds = "[\"111\"]" THEN {"111"}
  ELSE {}

\* C12: resolveMarketDetails fails with the validation error, before any
\* request, when neither tokenId nor (marketSlug and outcome) is supplied and
\* also when tokenId comes together with marketSlug and outcome.
C12_ExactlyOneOf ==
  LET slugAndOutcome == Supplied(rArgs.marketSlug) /\ Supplied(rArgs.outcome)
  IN  rPc # "idle" /\ (Supplied(rArgs.tokenId) <=> slugAndOutcome) =>
        /\ rPc = "threw"
        /\ rError.text = "Either provide tokenId directly"
        /\ rRequests = 0

\* C13: for a market whose parsed id list is [a, b], outcome YES resolves to a
\* and outcome NO to b; the list ["111","222"] gives "111" and "222".
C13_OutcomeSelectsToken ==
  rPc = "returned" /\ rRequests > 0 /\ rAnswer.clobTokenIds = "[\"111\",\"222\"]" =>
    /\ rArgs.outcome = "YES" => rResult.tokenId = "111"
    /\ rArgs.outcome = "NO" => rResult.tokenId = "222"
    /\ rResult.outcome = rArgs.outcome

\* the NO side of a two-token market was resolved
C13_Witness ==
  /\ rPc = "returned"
  /\ rAnswer.clobTokenIds = "[\"111\",\"222\"]"
  /\ rArgs.outcome = "NO"
  /\ rResult.tokenId = "222"

\* C14: a successful resolveMarketDetails returns the caller's tickSize when
\* one was supplied, on either path, and otherwise the market's tick size
\* (slug path) or "0.01" (tokenId path).
C14_TickSizeOverrideWins ==
  rPc = "returned" =>
    rResult.tickSize =
      IF Supplied(rArgs.tickSize) THEN rArgs.tickSize
      ELSE IF rRequests = 0 THEN "0.01"
      ELSE IF rAnswer.orderPriceMinTickSize = 10 THEN "0.01" ELSE "0.001"

\* C15: with a tokenId supplied, resolveMarketDetails returns that tokenId
\* with marketInfo = null and sends no market-data request.
C15_DirectTokenNoLookup ==
  Supplied(rArgs.tokenId) /\ rPc # "idle" =>
    /\ rPc = "returned"
    /\ rResult.tokenId = rArgs.tokenId
    /\ rResult.marketInfo = NoMarketInfo
    /\ rRequests = 0

\* a tokenId passed along with a slug and an outcome came back without a lookup
C15_Witness ==
  /\ rPc = "returned"
  /\ rArgs.tokenId = "999" /\ Supplied(rArgs.marketSlug) /\ Supplied(rArgs.outcome)
  /\ rResult.tokenId = "999"
  /\ rRequests = 0

\* C16: on the slug path resolveMarketDetails returns a tokenId that is an
\* element of the market's id list, or fails with an error naming the slug.
C16_SlugPathTokenOrNamedError ==
  rRequests > 0 /\ rPc \in {"returned", "threw"} =>
    \/ rPc = "returned" /\ rResult.tokenId \in InstrumentIds
    \/ rPc = "threw" /\ rError.slug = rArgs.marketSlug

\* C17: while no initialize() has failed, any number of concurrent first
\* callers cause one initialize() with one deriveApiKey and at most one
\* createApiKey request, every waiting caller waits on that one pending
\* promise, and once the client is set no call derives again.
C17_InitializeOnce ==
  /\ [](initFailures = 0 =>
          /\ initRuns <= 1
          /\ derivations - initRuns <= 1
          /\ \A c \in Callers : tpc[c] = "awaitInit" =>
                 initPromise = "pending" /\ initRuns = 1)
  /\ [][client => client' /\ derivations' = derivations /\ initRuns' = initRuns]_vars

C17_Witness ==
  /\ initFailures = 0
  /\ initRuns = 1
  /\ \A c \in Callers : tpc[c] = "awaitInit"

\* C18: fee estimation never aborts approveAll: whatever the node answers to
\* the fee-data query, buildFeeOverrides yields overrides and approveAll goes
\* on to read the pending nonce and broadcast.
C18_FeeEstimationNeverFails ==
  [][pc = "fee" => pc' \in {"fee", "nonce"}]_vars

\* q is n * 12 / 10 rounded down
IsBumped(q, n) == 10 * q <= 12 * n /\ 12 * n < 10 * (q + 1)

\* m is the larger of a and b
IsMax(m, a, b) == m >= a /\ m >= b /\ m \in {a, b}

\* C19: for every fee suggestion and floor buildFeeOverrides returns
\* maxPriorityFeePerGas = max(floor, suggested priority * 12 / 10 rounded down),
\* or the floor without a priority suggestion, and maxFeePerGas =
\* max(suggested max fee * 12 / 10 rounded down, 2 * maxPriorityFeePerGas), or
\* 2 * maxPriorityFeePerGas without a max-fee suggestion; so the priority fee
\* is at least the floor and the max fee at least twice the priority fee.
C19_FeeOverridesFormula ==
  feePc = "returned" =>
    LET pri == feeOverrides.maxPriorityFeePerGas
        fee == feeOverrides.maxFeePerGas
        sp == feeData.maxPriorityFeePerGas
        sf == feeData.maxFeePerGas
    IN  /\ IF sp.present
           THEN \E q \in 0..(2 * MaxFee) : IsBumped(q, sp.value) /\ IsMax(pri, floorPri, q)
           ELSE pri = floorPri
        /\ IF sf.present
           THEN \E q \in 0..(2 * MaxFee) : IsBumped(q, sf.value) /\ IsMax(fee, q, 2 * pri)
           ELSE fee = 2 * pri
        /\ pri >= floorPri
        /\ fee >= 2 * pri

C19_Witness ==
  /\ feePc = "returned"
  /\ feeData = [maxPriorityFeePerGas |-> Wei(4), maxFeePerGas |-> Wei(6)]
  /\ floorPri = 3
  /\ feeOverrides = [maxFeePerGas |-> 8, maxPriorityFeePerGas |-> 4]

KeyRequiredErrors == {TradingKeyError, ApprovalsKeyError}

\* C20: without a signing key the server registers exactly the read-only
\* market-data tools, every use of tradeApi or of PolymarketApprovals ends
\* with a POLYMARKET_PRIVATE_KEY-required error and sends nothing to the
\* exchange or the chain, and every read-only tool call is served.
C20_NoKeyNoStateChange ==
  Falsy(privateKey) =>
    /\ serverPc = "started" => registered = ReadOnlyTools
    /\ ~ tradingInstance
    /\ \A i \in 1..Len(log) :
         /\ log[i].sent \notin {"exchange", "chain"}
         /\ log[i].via \in {"tradeApi", "PolymarketApprovals"} =>
              log[i].error \in KeyRequiredErrors /\ log[i].sent = "none"
         /\ log[i].via = "tool" =>
              log[i].name \in ReadOnlyTools /\ log[i].error = "none"

C20_Witness ==
  /\ Falsy(privateKey)
  /\ serverPc = "started"
  /\ Len(log) = 2
  /\ log[1].via = "tradeApi" /\ log[1].error = TradingKeyError
  /\ log[2].via = "tool" /\ log[2].name = "getOrderBookTool"

\* the requirements whose on-chain value is zero, read off the chain
MissingOnChain == {r \in SeqToSet(ApprovalsOf(variant)) : allowance[r] = 0}

CancelCalls == {CancelEntry(op) : op \in CancelOps}

\* C21: cancelOrder, cancelOrders, cancelAllOrders and cancelMarketOrders
\* send their cancel request only after an allowance check that found
\* nothing missing; with something missing the call ends with
\* ApprovalRequiredError and no request was sent.
C21_CancelNeedsApprovals ==
  \A c \in Callers :
    targs[c].op \in CancelOps =>
      /\ issued[c] # {} => checked[c] /\ Len(status[c]) = 0
      /\ checked[c] /\ Len(status[c]) > 0 =>
           tpc[c] = "threw" /\ terr[c] = "APPROVAL_REQUIRED" /\ issued[c] = {}
      /\ tpc[c] = "done" => issued[c] \subseteq CancelCalls /\ issued[c] # {}

\* each of the four cancel methods was refused for a missing allowance
C21_Witness ==
  \E c, d \in Callers :
    /\ c # d
    /\ targs[c].op = "cancelOrders" /\ targs[d].op = "cancelMarketOrders"
    /\ terr[c] = "APPROVAL_REQUIRED" /\ issued[c] = {}
    /\ tpc[d] = "done" /\ issued[d] = {"cancelMarketOrders"}

\* C22: the read methods never check the allowances and never end with
\* ApprovalRequiredError, whatever the chain holds.
C22_ReadsSkipCheck ==
  \A c \in Callers :
    targs[c].op \in ReadOps =>
      /\ ~ checked[c]
      /\ terr[c] # "APPROVAL_REQUIRED"
      /\ ~ response[c].body.approvalRequired
      /\ tpc[c] \notin {"assert", "threw"} \/ terr[c] = "INIT_FAILED"

\* a read was served while a requirement was missing on the chain
C22_Witness ==
  \E c \in Callers :
    /\ targs[c].op = "getOpenOrders"
    /\ tpc[c] = "done" /\ issued[c] = {"getOpenOrders"}
    /\ MissingOnChain # {}

\* C23: every state-changing exchange call is preceded by the allowance
\* assertion: updateBalanceAllowance reaches the exchange only after a check
\* that found nothing missing.
C23_UpdateNeedsApprovals ==
  \A c \in Callers :
    "updateBalanceAllowance" \in issued[c] => checked[c] /\ Len(status[c]) = 0

\* C24: with waitForConfirmations > 0 a grant's hash is recorded only once
\* its awaited transaction has its receipt, and the next grant is broadcast
\* only when every recorded grant has left the mempool; with
\* waitForConfirmations <= 0 the call never waits and records the hash of the
\* response in the step that broadcasts. The hash is always that of the
\* latest transaction sent for the requirement.
C24_WaitThenNext ==
  /\ [](opts.wait <= 0 => pc \notin {"wait", "retryWait"})
  /\ [][Len(txHashes') > Len(txHashes) =>
          /\ txHashes'[Len(txHashes')] =
               [req |-> ApprovalsOf(variant)[idx], send |-> Len(sends')]
          /\ IF opts.wait > 0
             THEN pc \in {"wait", "retryWait"} /\ mined /\ broadcasts' = broadcasts
             ELSE pc \in {"send", "retry"} /\ broadcasts' = broadcasts + 1]_vars
  /\ [][broadcasts' > broadcasts /\ opts.wait > 0 =>
          \A i \in 1..Len(txHashes) : txHashes[i].req \notin mempool]_vars

\* a waiting call that recorded two confirmed grants
C24_Witness ==
  /\ opts.wait > 0
  /\ pc = "returned"
  /\ Len(txHashes) >= 2
  /\ mempool = {}

\* C25: no allowance status is kept between calls: the status an order or
\* cancel call asserts on, and the one approveAll works from, is what the
\* chain holds when that call reads it, so a requirement revoked since the
\* previous call is reported missing.
C25_FreshRead ==
  [][/\ \A c \in Callers :
          checked'[c] /\ ~ checked[c] => SeqToSet(status'[c]) = MissingOnChain
     /\ pc = "check" /\ pc' # "check" => SeqToSet(current') = MissingOnChain]_vars

\* an order went through, an allowance was revoked, and the next call of the
\* same client was refused for it
C25_Witness ==
  /\ tcalls = 2
  /\ extChanges = 1
  /\ \E o \in orders : o.onChainMissing = << >>
  /\ tpc["c1"] = "threw" /\ terr["c1"] = "APPROVAL_REQUIRED"
  /\ SeqToSet(status["c1"]) = MissingOnChain

\* C26: the market parameters of an order come from a lookup made in the same
\* call, so an order submitted after the exchange changed a token's
\* parameters carries the new ones.
C26_ParamsLookedUpPerOrder ==
  [][\A o \in orders' \ orders :
       /\ ParamRequests \subseteq issued[o.caller]
       /\ o.params = MarketParams(o.tokenId)]_vars

\* C27: whatever the interleaving of two approveAll invocations for the same
\* account, no two different grants are handed to the node carrying the same
\* nonce.
C27_OneGrantPerNonce ==
  \A t, u \in broadcast : t.nonce = u.nonce => t.req = u.req

\* C28: placeMarketOrder hands the exchange the caller's side and amount as
\* they came, BUY as Side.BUY and SELL as Side.SELL, and placeOrder likewise
\* the caller's price, size and side.
C28_SideAndAmountForwarded ==
  oPc = "submitted" =>
    /\ oOrder.tokenID = oArgs.tokenId
    /\ oArgs.side = "BUY" => oOrder.side = "Side.BUY"
    /\ oArgs.side = "SELL" => oOrder.side = "Side.SELL"
    /\ oArgs.op = "placeMarketOrder" =>
         oOrder.call = "createAndPostMarketOrder" /\ oOrder.amount = oArgs.amount
    /\ oArgs.op = "placeOrder" =>
         /\ oOrder.call = "createAndPostOrder"
         /\ oOrder.price = oArgs.price
         /\ oOrder.size = oArgs.size

\* a market BUY of amount 5 went out as a BUY of 5
C28_Witness ==
  /\ oPc = "submitted"
  /\ oArgs.op = "placeMarketOrder" /\ oArgs.side = "BUY" /\ oArgs.amount = 5
  /\ oOrder.side = "Side.BUY" /\ oOrder.amount = 5

\* C29: with a funder address configured, every allowance read of check() is
\* for the funder address, and approveAll grants for that same owner instead
\* of failing.
C29_FunderIsOwner ==
  isProxyWallet =>
    /\ \A rd \in ownerReads : rd.owner = funderAddress
    /\ \A g \in ownerGrants : g.owner = funderAddress
    /\ ownerPc # "threw"

\* the part of C29 about check(): its reads are for the funder address
OwnerReadsForFunder ==
  isProxyWallet => \A rd \in ownerReads : rd.owner = funderAddress

\* the transactions of one approval that was not read as granted
GrantLog(r) ==
  IF r \in autoRead THEN << >>
  ELSE << [ev |-> "broadcast", req |-> r], [ev |-> "confirmed", req |-> r] >>

\* C30: in the auto-approve services, the credentials are requested only after
\* setAllowances has broadcast and confirmed every missing approval, USDC for
\* CTF, then USDC for the Exchange, then CTF for the Exchange; an OrderService
\* exists and an order is placed only after that; once setAllowances has
\* failed there is no OrderService and no order.
C30_AllowancesBeforeOrders ==
  /\ (credsRequested \/ orderService # "undefined" \/ autoOrders # {}) =>
       /\ ~setAllowancesFailed
       /\ autoLog = GrantLog("usdcAllowanceCtf") \o GrantLog("usdcAllowanceExchange")
                      \o GrantLog("conditionalTokensAllowanceExchange")
  /\ autoOrders # {} => credsRequested /\ orderService = "OrderService"
  /\ \A c \in Callers : getterPc[c] = "has" => orderService = "OrderService"
  /\ setAllowancesFailed =>
       /\ autoOrders = {}
       /\ orderService = "undefined"
       /\ \A c \in Callers : getterPc[c] # "has"

\* an order was placed after initialization granted all three approvals
C30_Witness ==
  /\ autoOrders # {}
  /\ Len(autoLog) = 6

\* setAllowances failed and a later tool call was turned away
C30_FailedWitness ==
  /\ setAllowancesFailed
  /\ \E c \in Callers : getterPc[c] = "threw"

\* the catch block of sendWithNonceAndRetry has just taken an error outside the
\* nonce-conflict / replacement class
CaughtOther ==
  /\ variant = "refCounter"
  /\ pc \in {"send", "wait"}
  /\ caught' \in Errors \ NonceClass

\* C31 as stated: an error outside the nonce-conflict / replacement class is
\* rethrown after one broadcaster invocation, without a re-query of the pending
\* count, and with the shared nonce counter still at the nonce that invocation
\* was handed.
C31_RethrownCounterUnchanged ==
  [][CaughtOther =>
       /\ pc' = "threw"
       /\ Len(sends') = 1
       /\ refreshed' = 0
       /\ nextNonce' = sends'[1]]_vars

\* C31 as amended: such an error is rethrown after one broadcaster invocation
\* and without a re-query; the catch block leaves the counter as the try block
\* left it, which is unchanged when the broadcaster call failed and one above
\* the nonce it was handed when the broadcast was accepted and the wait for
\* confirmations failed.
C31_RethrownNoRequery ==
  [][CaughtOther =>
       /\ pc' = "threw"
       /\ Len(sends') = 1
       /\ refreshed' = 0
       /\ (pc = "send" => nextNonce' = sends'[1] /\ nextNonce' = nextNonce
                          /\ broadcasts' = broadcasts)
       /\ (pc = "wait" => nextNonce' = sends'[1] + 1 /\ nextNonce' = nextNonce
                          /\ broadcasts' = broadcasts)]_vars

\* the broadcast of a grant was accepted, the wait for its confirmations failed
\* with an error outside the class, and approveAll threw with the counter one
\* above the nonce of that broadcast
C31_Witness ==
  /\ variant = "refCounter"
  /\ pc = "threw"
  /\ caught \in Errors \ NonceClass
  /\ waitConfs > 0
  /\ Len(sends) = 1
  /\ broadcasts = 1
  /\ nextNonce = sends[1] + 1

\* C32: a requirement whose broadcast the node accepted gets no second
\* transaction: within one approveAll call the node accepts at most one
\* transaction per requirement whose broadcaster was invoked, and the retry path
\* is never entered from the wait for confirmations.
C32_NoSecondBroadcast ==
  /\ [](broadcasts <= Cardinality(attempted))
  /\ [][pc = "wait" => pc' # "requery"]_vars

\* the same for sendWithNonceAndRetry alone
RefCounterNoSecondBroadcast == variant = "refCounter" => broadcasts <= Cardinality(attempted)

\* the same for sendTx alone
SendTxNoSecondBroadcast == variant = "noncePlusPlus" => broadcasts <= Cardinality(attempted)

\* C33: when the grant for a requirement fails, with an error that is not
\* retried or after its one retry, approveAll throws; from then on it
\* broadcasts nothing, for that requirement or a later one; the transactions it
\* broadcast before stay with the node until they are mined, and approveAll
\* builds no result that would name them.
C33_FailedGrantStops ==
  /\ [][/\ (pc \in {"send", "wait"} /\ caught' # NoErr /\ pc' # "requery" =>
              pc' = "threw")
        /\ (pc = "retry" /\ pc' # "retry" /\ broadcasts' = broadcasts => pc' = "threw")
        /\ (pc = "retryWait" /\ pc' # "retryWait" /\ txHashes' = txHashes =>
              pc' = "threw")
        /\ (pc = "threw" =>
              /\ pc' = "threw"
              /\ broadcasts' = broadcasts
              /\ sends' = sends
              /\ attempted' = attempted
              /\ txHashes' = txHashes
              /\ mempool' \subseteq mempool
              /\ \A r \in mempool \ mempool' : allowance'[r] = GrantValue(r))]_vars
  /\ [](pc = "threw" => message = "")

\* the second grant failed after the first was broadcast; approveAll threw and
\* the first grant was mined all the same
C33_Witness ==
  /\ pc = "threw"
  /\ Len(txHashes) = 1
  /\ Cardinality(attempted) = 2
  /\ broadcasts = 1
  /\ mempool = {}
  /\ allowance[txHashes[1].req] = GrantValue(txHashes[1].req)

\* the first grant failed and the second missing requirement was never tried
C33_LaterNotTried ==
  /\ pc = "threw"
  /\ Len(current) = 2
  /\ attempted = {current[1]}
  /\ broadcasts = 0

\* the place of requirement r in the declaration order
DeclaredAt(r) == CHOOSE k \in DOMAIN ApprovalsOf(variant) : ApprovalsOf(variant)[k] = r

\* C34: check() reports a requirement missing exactly when its on-chain value
\* is zero (allowance) or false (operator approval), so any non-zero allowance
\* counts as granted; `missing` is in declaration order without duplicates;
\* check() sends no transaction and changes nothing on the chain.
C34_MissingIffZero ==
  [][pc = "check" /\ pc' # "check" =>
       /\ \A r \in DOMAIN allowance : (r \in SeqToSet(current')) <=> (allowance[r] = 0)
       /\ \A i, j \in DOMAIN current' :
            i < j => DeclaredAt(current'[i]) < DeclaredAt(current'[j])
       /\ allowance' = allowance
       /\ mempool' = mempool
       /\ broadcasts' = broadcasts
       /\ sends' = sends]_vars

\* check() has answered for an owner whose USDC allowance for the CTF contract
\* is 1 and whose allowance for the Exchange is zero: only the latter is missing
C34_Witness ==
  /\ pc \in {"fee", "nonce"}
  /\ allowance["USDC_ALLOWANCE_FOR_CTF"] = 1
  /\ allowance["USDC_ALLOWANCE_FOR_EXCHANGE"] = 0
  /\ allowance["CTF_APPROVAL_FOR_EXCHANGE"] = 1
  /\ current = << "USDC_ALLOWANCE_FOR_EXCHANGE" >>

\* initialize() runs that have started and neither failed nor finished
InFlight == initRuns - initFailures - (IF initPromise = "resolved" THEN 1 ELSE 0)

\* C35: when initialize() fails, every caller waiting on the shared promise
\* gets that error, initPromise is null again and the client is still unset,
\* and the next call starts a new initialize(); never are two initialize()
\* runs in flight.
C35_FailedInitRetried ==
  /\ [][/\ (initFailures' = initFailures + 1 =>
              /\ initPromise' = "null"
              /\ ~client'
              /\ \A c \in Callers : tpc[c] = "awaitInit" =>
                     tpc'[c] = "threw" /\ terr'[c] = "INIT_FAILED")
        /\ (tcalls' = tcalls + 1 /\ ~client /\ initPromise = "null" =>
              /\ initRuns' = initRuns + 1
              /\ initPromise' = "pending"
              /\ \E c \in Callers : tpc'[c] = "awaitInit" /\ tpc[c] # "awaitInit")]_vars
  /\ [](InFlight \in {0, 1} /\ (InFlight = 1 <=> initPc # "none"))

\* initialize() failed with both callers waiting: both got the error and the
\* promise is null again
C35_Witness ==
  /\ initFailures = 1
  /\ initPromise = "null"
  /\ ~client
  /\ \A c \in Callers : tpc[c] = "threw" /\ terr[c] = "INIT_FAILED"

\* after a failed initialize() the next call started a second one
C35_SecondAttempt ==
  /\ initFailures = 1
  /\ initRuns = 2
  /\ initPromise = "pending"

\* C36: a failed initializeTradingServices is not retried: the rejected promise
\* is kept, every later getAllowanceService / getOrderService /
\* getPortfolioService call rejects with the error it was rejected with, and
\* setAllowances, which starts only with the first call, never runs again.
C36_RejectionKept ==
  [][/\ (initializationPromise = "rejected" =>
           /\ initializationPromise' = "rejected"
           /\ rejection' = rejection
           /\ autoPc' = autoPc /\ autoRead' = autoRead /\ autoLog' = autoLog
           /\ signerApproved' = signerApproved /\ orderService' = orderService)
     /\ (initializationPromise # "null" => initializationPromise' # "null")
     /\ (autoPc' = "read" /\ autoPc # "read" => initializationPromise = "null")
     /\ \A c \in Callers :
          initializationPromise = "rejected" /\ getterPc[c] = "awaiting"
            /\ getterPc'[c] # "awaiting" =>
              getterPc'[c] = "threw" /\ received'[c] = rejection /\ rejection # "none"]_vars

\* setAllowances failed during the first call; a later getPortfolioService call
\* by the other caller was rejected with the same error
C36_Witness ==
  /\ initializationPromise = "rejected"
  /\ setAllowancesFailed
  /\ wanted["c1"] = "getOrderService" /\ wanted["c2"] = "getPortfolioService"
  /\ getterPc["c1"] = "idle" /\ received["c1"] = rejection
  /\ getterPc["c2"] = "threw" /\ received["c2"] = rejection
  /\ rejection = "transaction failed"

\* redeemPositions never throws, and a redemption transaction is broadcast
\* only after the resolution read gave true, the balance read gave a non-zero
\* balance when a tokenId was passed, and the adapter read gave true for negRisk
RedeemGuarded ==
  /\ redeemPc = "done" => redeemResult.returned
  /\ redeemTxs > 0 =>
       /\ resolvedRead = "true"
       /\ ~Falsy(redeemParams.tokenId) => tokenBalance > 0
       /\ redeemParams.negRisk => adapterRead = "true"

\* a failed read of the three ends in success = false with no transaction
FailedReadNoTransaction ==
  failedReads # {} =>
    /\ redeemTxs = 0
    /\ redeemPc = "done" => ~redeemResult.success /\ ~redeemResult.txHash

\* each read answers 0 / false when its own RPC request fails
FailedReadMapped ==
  /\ "balance" \in failedReads => tokenBalance = 0
  /\ "resolved" \in failedReads => resolvedRead = "false"
  /\ "adapter" \in failedReads => adapterRead = "false"

\* C37: redeemPositions never throws and broadcasts a redemption transaction
\* only if the resolution check returned true, the balance read was non-zero
\* when a tokenId is given, and the adapter approval check returned true for
\* negRisk; each of these reads maps its own failure to false / 0, so an RPC
\* failure in any of them yields success = false with no transaction sent
C37_RedeemReadsMapFailure ==
  /\ RedeemGuarded
  /\ FailedReadMapped
  /\ FailedReadNoTransaction

\* the adapter read failed and redeemPositions answered with the RPC error
\* instead of the not-approved answer
C37_AdapterReadRejected ==
  /\ redeemPc = "done"
  /\ "adapter" \in failedReads
  /\ adapterRead = "rejected"
  /\ redeemResult = Failure("rpc error")

\* a redemption went through after all three reads answered
C37_Redeemed ==
  /\ redeemPc = "done"
  /\ redeemParams.negRisk
  /\ redeemResult.success
  /\ redeemTxs = 1

====
